---- MODULE Spec2Model ----
(***************************************************************************)
(* Cap table modelling tool: the data models (Company, FundingRound,       *)
(* CapTableStage), the input validation and the cap table evolution        *)
(* engine, as a state machine over one Company object.                     *)
(*                                                                         *)
(* JavaScript numbers.  Share counts, years and money amounts are          *)
(* integers of the model.  The values of a JavaScript number that are not  *)
(* such an integer are encoded by the reserved constants Null, NaN and     *)
(* Infinity (all below every integer the model uses), and the limit        *)
(* 1,000,000,000,000 by Trillion; JsLT, JsAdd, ... give them the IEEE-754  *)
(* meaning.  A quotient that the code keeps unrounded (a liquidation-stack *)
(* entry's ownershipPercent, a round's equityPercentage) is the record     *)
(* [num, den] of the fraction num/den.  A percentage rounded to one        *)
(* decimal (calculatePercentage) is an integer number of tenths.           *)
(***************************************************************************)
EXTENDS Integers, Sequences, FiniteSets, TLC

VARIABLES
    input,          \* the plain record the Company was constructed from
    company,        \* the Company object (fields and its FundingRound list)
    validation,     \* outcome of the last company.validate() call
    evoStatus,      \* outcome of the last calculateEvolution call
    evolution,      \* the stage sequence that call returned
    reconstructed,  \* new Company(company.toObject()) of the last round trip
    returns,        \* outcome of the last calculateReturns call
    sensitivity,    \* outcome of the last calculateSensitivityScenarios call
    tax,            \* outcome of the last calculateUKTaxBenefits call
    app             \* the CapTableApp's company, capTableData and returnsData

vars ==
    <<input, company, validation, evoStatus, evolution, reconstructed, returns,
      sensitivity, tax, app>>

-----------------------------------------------------------------------------
(* Bounds of the model *)

MaxRounds == 2

-----------------------------------------------------------------------------
(* JavaScript values outside the model's integers *)

Null == -1000001
NaN == -1000002
Infinity == -1000003
Trillion == -1000004

IsFinite(x) == x \notin {Null, NaN, Infinity}

\* A pre-money valuation times a scenario multiplier need not be whole: the
\* double nearest k/10, k not a multiple of 10, is the reserved integer
\* TenthsBase - k.  TenthsOf gives ten times a finite number, FromTenths the
\* number of that many tenths
TenthsBase == -2000000
IsTenths(x) == x < TenthsBase
TenthsOf(x) == IF IsTenths(x) THEN TenthsBase - x ELSE 10 * x
FromTenths(t) == IF t % 10 = 0 THEN t \div 10 ELSE TenthsBase - t

\* operand of `x || default`: 0, NaN, null (and '' for strings) are falsy
Falsy(x) == x \in {0, NaN, Null}

\* order class of a number: integers of the model, then 10^12, then Infinity
Magnitude(x) == IF x = Infinity THEN 2 ELSE IF x = Trillion THEN 1 ELSE 0

\* a < b on JavaScript numbers (false when either side is NaN)
JsLT(a, b) ==
    /\ a # NaN /\ b # NaN
    /\ \/ Magnitude(a) < Magnitude(b)
       \/ /\ Magnitude(a) = 0 /\ Magnitude(b) = 0
          /\ IF IsTenths(a) \/ IsTenths(b) THEN TenthsOf(a) < TenthsOf(b)
             ELSE a < b

JsGT(a, b) == JsLT(b, a)

\* a + b
JsAdd(a, b) ==
    IF a = NaN \/ b = NaN THEN NaN
    ELSE IF a = Infinity \/ b = Infinity THEN Infinity
    ELSE IF IsTenths(a) \/ IsTenths(b) THEN FromTenths(TenthsOf(a) + TenthsOf(b))
    ELSE a + b

\* a - b for a, b >= 0 or Infinity
JsSub(a, b) ==
    IF a = NaN \/ b = NaN THEN NaN
    ELSE IF a = Infinity /\ b = Infinity THEN NaN
    ELSE IF a = Infinity THEN Infinity
    ELSE a - b

\* Math.max(0, x): NaN stays NaN
JsMax0(x) ==
    IF x = NaN THEN NaN
    ELSE IF x = Infinity THEN Infinity
    ELSE IF x > 0 THEN x ELSE 0

\* the fraction num/den as the code holds it; [num |-> NaN] and [num |-> Null]
\* stand for NaN and null
Frac(n, d) == [num |-> n, den |-> d]
NullFrac == Frac(Null, 1)
NaNFrac == Frac(NaN, 1)

\* x / d for a number x that may be a count of tenths, and a whole d
FracOf(x, d) == IF IsTenths(x) THEN Frac(TenthsOf(x), 10 * d) ELSE Frac(x, d)

-----------------------------------------------------------------------------
(* CONFIG *)

MIN_YEAR == 2020
MAX_YEAR == 2050
MIN_FOUNDER_SHARES == 1
MAX_FOUNDER_SHARES == 1000000000
MIN_VALUATION == 1
MAX_VALUATION == Trillion
MIN_INVESTMENT == 1
MAX_INVESTMENT == Trillion

DEFAULT_FOUNDER_SHARES == 10000000
DEFAULT_OPTION_POOL_PERCENT == 20
DEFAULT_EXIT_YEARS_AHEAD == 6
DEFAULT_EXIT_VALUATION == 100000000
DEFAULT_EXIT_MULTIPLE == 5
DEFAULT_CURRENCY == "GBP"
DEFAULT_PRE_MONEY_VALUATION == 5000000
DEFAULT_INVESTMENT == 1000000
DEFAULT_REVENUE == 0
DEFAULT_LIQUIDATION_PREF == "1x"
DEFAULT_ANTI_DILUTION == "none"
DEFAULT_DISCOUNT_RATE == 0

\* CONFIG.DEFAULTS.ROUND has no TYPE key: the default round type is undefined,
\* which validateRequired treats like ''
DEFAULT_ROUND_TYPE == ""

\* own keys of CONFIG.CURRENCIES
CURRENCIES == {"GBP", "USD", "EUR"}

\* CONFIG.CURRENCIES is an object literal: a lookup CONFIG.CURRENCIES[key] also
\* finds what it inherits from Object.prototype
ObjectPrototypeKeys ==
    {"constructor", "toString", "valueOf", "hasOwnProperty", "isPrototypeOf",
     "propertyIsEnumerable", "toLocaleString", "__proto__"}

ROUND_TYPES ==
    {"Bootstrap", "Pre-Seed", "Seed", "Series A", "Series B", "Series C",
     "Series D", "Growth", "SAFE", "Convertible"}

\* DateUtils.getCurrentYear(): the year of the run
CurrentYear == 2026

-----------------------------------------------------------------------------
(* FundingRound *)

\* new FundingRound(data)
FundingRound(data) ==
    [id |-> IF Falsy(data.id) THEN Null ELSE data.id,
     type |-> IF data.type = "" THEN DEFAULT_ROUND_TYPE ELSE data.type,
     year |-> IF Falsy(data.year) THEN CurrentYear ELSE data.year,
     preMoneyValuation |->
        IF Falsy(data.preMoneyValuation) THEN DEFAULT_PRE_MONEY_VALUATION
        ELSE data.preMoneyValuation,
     investment |->
        IF Falsy(data.investment) THEN DEFAULT_INVESTMENT ELSE data.investment,
     revenue |-> IF Falsy(data.revenue) THEN DEFAULT_REVENUE ELSE data.revenue,
     liquidationPref |->
        IF data.liquidationPref = "" THEN DEFAULT_LIQUIDATION_PREF
        ELSE data.liquidationPref,
     antiDilution |->
        IF data.antiDilution = "" THEN DEFAULT_ANTI_DILUTION ELSE data.antiDilution,
     discountRate |->
        IF Falsy(data.discountRate) THEN DEFAULT_DISCOUNT_RATE ELSE data.discountRate,
     postMoneyValuation |-> Null,
     equityPercentage |-> NullFrac,
     sharesIssued |-> Null,
     ownershipPercent |-> Null]

\* FundingRound.calculatePostMoney: the round afterwards
calculatePostMoney(round) ==
    [round EXCEPT !.postMoneyValuation =
        JsAdd(round.preMoneyValuation, round.investment)]

\* FundingRound.calculateEquityPercentage: the round afterwards
calculateEquityPercentage(round) ==
    LET r == IF round.postMoneyValuation = Null THEN calculatePostMoney(round)
             ELSE round
    IN [r EXCEPT !.equityPercentage =
            Frac(r.investment * 100, r.postMoneyValuation)]

\* FundingRound.toObject: every field, as a plain record
RoundToObject(round) ==
    [id |-> round.id,
     type |-> round.type,
     year |-> round.year,
     preMoneyValuation |-> round.preMoneyValuation,
     investment |-> round.investment,
     revenue |-> round.revenue,
     liquidationPref |-> round.liquidationPref,
     antiDilution |-> round.antiDilution,
     discountRate |-> round.discountRate,
     postMoneyValuation |-> round.postMoneyValuation,
     equityPercentage |-> round.equityPercentage,
     sharesIssued |-> round.sharesIssued,
     ownershipPercent |-> round.ownershipPercent]

-----------------------------------------------------------------------------
(* Company *)

\* new Company(data); data.rounds may carry any of a round's fields
Company(data) ==
    [companyName |-> data.companyName,
     currency |-> IF data.currency = "" THEN DEFAULT_CURRENCY ELSE data.currency,
     founderShares |->
        IF Falsy(data.founderShares) THEN DEFAULT_FOUNDER_SHARES
        ELSE data.founderShares,
     optionPoolPercent |->
        IF Falsy(data.optionPoolPercent) THEN DEFAULT_OPTION_POOL_PERCENT
        ELSE data.optionPoolPercent,
     optionPoolTopUp |-> data.optionPoolTopUp,
     useRevenueMultiples |-> data.useRevenueMultiples,
     exitYear |->
        IF Falsy(data.exitYear) THEN CurrentYear + DEFAULT_EXIT_YEARS_AHEAD
        ELSE data.exitYear,
     exitValuation |->
        IF Falsy(data.exitValuation) THEN DEFAULT_EXIT_VALUATION
        ELSE data.exitValuation,
     exitMultiple |->
        IF Falsy(data.exitMultiple) THEN DEFAULT_EXIT_MULTIPLE ELSE data.exitMultiple,
     rounds |-> [i \in 1..Len(data.rounds) |-> FundingRound(data.rounds[i])]]

\* Company.toObject
ToObject(c) ==
    [companyName |-> c.companyName,
     currency |-> c.currency,
     founderShares |-> c.founderShares,
     optionPoolPercent |-> c.optionPoolPercent,
     optionPoolTopUp |-> c.optionPoolTopUp,
     useRevenueMultiples |-> c.useRevenueMultiples,
     exitYear |-> c.exitYear,
     exitValuation |-> c.exitValuation,
     exitMultiple |-> c.exitMultiple,
     rounds |-> [i \in 1..Len(c.rounds) |-> RoundToObject(c.rounds[i])]]

\* Company.addRound: the rounds afterwards (ids count from 0)
addRound(c, roundData) ==
    Append(c.rounds, [FundingRound(roundData) EXCEPT !.id = Len(c.rounds)])

\* Company.removeRound(index), index counted from 0: the rounds afterwards
removeRound(c, index) ==
    IF index >= 0 /\ index < Len(c.rounds)
    THEN LET kept == [i \in 1..(Len(c.rounds) - 1) |->
                        IF i <= index THEN c.rounds[i] ELSE c.rounds[i + 1]]
         IN [i \in 1..Len(kept) |-> [kept[i] EXCEPT !.id = i - 1]]
    ELSE c.rounds

-----------------------------------------------------------------------------
(* Validator *)

\* a ValidationError thrown for one field: its field name and the failed rule
FieldError(fieldName, rule) == [field |-> fieldName, rule |-> rule]

\* Validator.validateRequired on a string value: the errors thrown
validateRequiredText(value, fieldName) ==
    IF value = "" THEN <<FieldError(fieldName, "is required")>> ELSE <<>>

\* Validator.validateRequired on a numeric value: the errors thrown
validateRequired(value, fieldName) ==
    IF value = Null THEN <<FieldError(fieldName, "is required")>> ELSE <<>>

\* Validator.validateNumber: the errors thrown (min, max = Null: no limit)
validateNumber(value, fieldName, min, max) ==
    IF validateRequired(value, fieldName) # <<>>
    THEN validateRequired(value, fieldName)
    ELSE IF value = NaN
    THEN <<FieldError(fieldName, "must be a valid number")>>
    ELSE IF min # Null /\ JsLT(value, min)
    THEN <<FieldError(fieldName, "must be at least")>>
    ELSE IF max # Null /\ JsGT(value, max)
    THEN <<FieldError(fieldName, "must be no more than")>>
    ELSE <<>>

\* Number.isInteger on a value of the model
IsInteger(num) == num \notin {Null, NaN, Infinity} /\ ~IsTenths(num)

\* Validator.validateInteger
validateInteger(value, fieldName, min, max) ==
    IF validateNumber(value, fieldName, min, max) # <<>>
    THEN validateNumber(value, fieldName, min, max)
    ELSE IF ~IsInteger(value)
    THEN <<FieldError(fieldName, "must be a whole number")>>
    ELSE <<>>

\* Validator.validateYear
validateYear(value, fieldName) ==
    validateInteger(value, fieldName, MIN_YEAR, MAX_YEAR)

\* Validator.validatePercentage
validatePercentage(value, fieldName) ==
    validateNumber(value, fieldName, 0, 100)

\* CONFIG.CURRENCIES[value] is truthy: an own key, or a key that the object
\* literal inherits from Object.prototype
CurrencyLookupTruthy(value) ==
    value \in CURRENCIES \/ value \in ObjectPrototypeKeys

\* Validator.validateCurrency
validateCurrency(value, fieldName) ==
    IF validateRequiredText(value, fieldName) # <<>>
    THEN validateRequiredText(value, fieldName)
    ELSE IF ~CurrencyLookupTruthy(value)
    THEN <<FieldError(fieldName, "Invalid currency")>>
    ELSE <<>>

\* Validator.validateRoundType
validateRoundType(value, fieldName) ==
    IF validateRequiredText(value, fieldName) # <<>>
    THEN validateRequiredText(value, fieldName)
    ELSE IF value \notin ROUND_TYPES
    THEN <<FieldError(fieldName, "Invalid round type")>>
    ELSE <<>>

\* Validator.validateCompanyData: the sub-errors collected, in order
CompanyDataErrors(data) ==
    validateRequiredText(data.companyName, "Company Name")
    \o validateInteger(data.founderShares, "Founder Shares",
                       MIN_FOUNDER_SHARES, MAX_FOUNDER_SHARES)
    \o validatePercentage(data.optionPoolPercent, "Option Pool Percentage")
    \o validateCurrency(data.currency, "Currency")
    \o validateYear(data.exitYear, "Exit Year")
    \o validateNumber(data.exitValuation, "Exit Valuation",
                      MIN_VALUATION, MAX_VALUATION)

\* Validator.validateFundingRound: the sub-errors collected, in order
FundingRoundErrors(round) ==
    validateRoundType(round.type, "Round Type")
    \o validateYear(round.year, "Round Year")
    \o validateNumber(round.preMoneyValuation, "Pre-Money Valuation",
                      MIN_VALUATION, MAX_VALUATION)
    \o validateNumber(round.investment, "Investment Amount",
                      MIN_INVESTMENT, MAX_INVESTMENT)
    \o validateNumber(round.revenue, "Revenue", 0, Null)

\* what a validate() call ends with: a normal return, or the ValidationError
\* thrown: its field, for `Round n` the n, the count its message states and
\* its value (the list of sub-errors, empty when the value is null)
Passed == [ok |-> TRUE, field |-> "", index |-> 0, count |-> 0, errors |-> <<>>]
NotRun == [ok |-> FALSE, field |-> "", index |-> 0, count |-> 0, errors |-> <<>>]

\* Validator.validateCompanyData
validateCompanyData(data) ==
    LET errors == CompanyDataErrors(data)
    IN IF Len(errors) > 0
       THEN [ok |-> FALSE, field |-> "Company Data", index |-> 0,
             count |-> Len(errors), errors |-> errors]
       ELSE Passed

\* Validator.validateFundingRound
validateFundingRound(round) ==
    LET errors == FundingRoundErrors(round)
    IN IF Len(errors) > 0
       THEN [ok |-> FALSE, field |-> "Funding Round", index |-> 0,
             count |-> Len(errors), errors |-> errors]
       ELSE Passed

\* Company.validate: validateCompanyData throws first; then forEach stops at
\* the first round whose validate() throws, and rethrows its message alone
validate(c) ==
    IF ~validateCompanyData(c).ok THEN validateCompanyData(c)
    ELSE LET bad == {i \in 1..Len(c.rounds) : ~validateFundingRound(c.rounds[i]).ok}
         IN IF bad = {} THEN Passed
            ELSE LET first == CHOOSE i \in bad : \A j \in bad : i <= j
                 IN [ok |-> FALSE, field |-> "Round", index |-> first,
                     count |-> validateFundingRound(c.rounds[first]).count,
                     errors |-> <<>>]

-----------------------------------------------------------------------------
(* NumberUtils, DataUtils *)

\* NumberUtils.calculatePercentage(part, whole, 1), in tenths of a percent:
\* parseFloat(((part / whole) * 100).toFixed(1)).  toFixed rounds the double
\* to the nearest tenth, the larger on a tie; x/Infinity is 0, and
\* Infinity/Infinity is NaN, which toFixed and parseFloat hand through
calculatePercentage(part, whole) ==
    IF whole = 0 THEN 0
    ELSE IF part = NaN \/ whole = NaN THEN NaN
    ELSE IF part = Infinity /\ whole = Infinity THEN NaN
    ELSE IF whole = Infinity THEN 0
    ELSE IF part = Infinity THEN Infinity
    ELSE (2000 * part + whole) \div (2 * whole)

\* InsertByYear with the comparator's tie handled as "greater": a round goes
\* before the rounds of its own year
RECURSIVE InsertByYear_TieFirst(_, _)
InsertByYear_TieFirst(sorted, round) ==
    IF sorted = <<>> THEN <<round>>
    ELSE IF round.year <= Head(sorted).year THEN <<round>> \o sorted
    ELSE <<Head(sorted)>> \o InsertByYear_TieFirst(Tail(sorted), round)

\* the place DataUtils.sortBy's comparator gives `round` among rounds already
\* in ascending year order: after every round whose year is not greater
RECURSIVE InsertByYear(_, _)
InsertByYear(sorted, round) ==
    IF sorted = <<>> THEN <<round>>
    ELSE IF round.year < Head(sorted).year THEN <<round>> \o sorted
    ELSE <<Head(sorted)>> \o InsertByYear(Tail(sorted), round)

\* DataUtils.sortBy(array, 'year', true): Array.prototype.sort is stable
RECURSIVE sortBy(_)
sortBy(array) ==
    IF array = <<>> THEN <<>>
    ELSE InsertByYear(sortBy(SubSeq(array, 1, Len(array) - 1)), array[Len(array)])

\* Company.getRoundsByYear: a sorted copy, company.rounds itself is not reordered
getRoundsByYear(c) == sortBy(c.rounds)

\* c.rounds as a getRoundsByYear call leaves it, were the array sorted the
\* one of c.rounds
roundsAfterGetRoundsByYear_InPlace(c) == sortBy(c.rounds)

\* c.rounds as a getRoundsByYear call leaves it: Array.prototype.sort sorts
\* the array it is called on, which is the copy [...this.rounds]
roundsAfterGetRoundsByYear(c) == c.rounds

\* Company.getInitialOptionPoolShares:
\* Math.floor(founderShares * optionPoolPercent / (100 - optionPoolPercent));
\* a positive number divided by zero is Infinity
getInitialOptionPoolShares(c) ==
    IF c.optionPoolPercent = 100
    THEN (IF c.founderShares * c.optionPoolPercent = 0 THEN NaN ELSE Infinity)
    ELSE (c.founderShares * c.optionPoolPercent) \div (100 - c.optionPoolPercent)

-----------------------------------------------------------------------------
(* CapTableStage *)

\* `x || 0` of the CapTableStage constructor
OrZero(x) == IF Falsy(x) THEN 0 ELSE x

\* new CapTableStage(data) followed by stage.calculateOwnership(): the
\* ownership fields stay 0 when totalShares is 0
CapTableStage(data) ==
    LET total == OrZero(data.totalShares)
        founder == OrZero(data.founderShares)
        pool == OrZero(data.optionPoolShares)
        investor == OrZero(data.investorShares)
        newInvestor == OrZero(data.newInvestorShares)
    IN [stage |-> IF data.stage = "" THEN "Incorporation" ELSE data.stage,
        year |-> IF Falsy(data.year) THEN CurrentYear ELSE data.year,
        totalShares |-> total,
        founderShares |-> founder,
        optionPoolShares |-> pool,
        investorShares |-> investor,
        newInvestorShares |-> newInvestor,
        round |-> data.round,
        liquidationStack |-> data.liquidationStack,
        founderOwnership |->
            IF total = 0 THEN 0 ELSE calculatePercentage(founder, total),
        optionPoolOwnership |->
            IF total = 0 THEN 0 ELSE calculatePercentage(pool, total),
        investorOwnership |->
            IF total = 0 THEN 0 ELSE calculatePercentage(investor, total),
        newInvestorOwnership |->
            IF total = 0 THEN 0 ELSE calculatePercentage(newInvestor, total),
        preMoneyValuation |-> OrZero(data.preMoneyValuation),
        postMoneyValuation |-> OrZero(data.postMoneyValuation),
        investment |-> OrZero(data.investment),
        revenue |-> OrZero(data.revenue),
        revenueMultiple |-> data.revenueMultiple]

\* Percentage triples (founder, pool, investor; tenths) of this model's stages
\* whose decimal sum is 99.9 or 100.1 and whose sum as IEEE doubles, added
\* left to right, lies more than the double 0.1 away from 100: for example
\* 33.3 + 44.4 + 22.2 is 99.89999999999999 and misses 100 by
\* 0.10000000000000853
DoubleSumOutOfTolerance ==
    {<<22, 175, 804>>, <<28, 28, 943>>, <<32, 175, 794>>, <<34, 174, 791>>,
     <<34, 179, 786>>, <<35, 9, 957>>, <<38, 38, 923>>, <<39, 39, 921>>,
     <<41, 41, 919>>, <<45, 11, 943>>, <<47, 12, 942>>, <<51, 13, 937>>,
     <<52, 176, 771>>, <<56, 181, 764>>, <<58, 58, 883>>, <<63, 16, 922>>,
     <<73, 18, 908>>, <<75, 19, 907>>, <<86, 86, 829>>, <<98, 171, 732>>,
     <<99, 25, 877>>, <<101, 25, 873>>, <<103, 26, 872>>, <<105, 26, 868>>,
     <<114, 114, 771>>, <<119, 164, 716>>, <<119, 179, 701>>, <<121, 30, 848>>,
     <<143, 179, 679>>, <<211, 53, 737>>, <<333, 444, 222>>, <<533, 133, 333>>}

\* CapTableStage.validateOwnership: TRUE when it returns, FALSE when it throws
\* its CalculationError.  Math.abs(total - 100) > tolerance is false for a NaN
\* total and true for an infinite one
validateOwnership(stage) ==
    LET total == JsAdd(JsAdd(stage.founderOwnership, stage.optionPoolOwnership),
                       stage.investorOwnership)
    IN IF total = NaN THEN TRUE
       ELSE IF total = Infinity THEN FALSE
       ELSE /\ total - 1000 <= 1
            /\ 1000 - total <= 1
            /\ <<stage.founderOwnership, stage.optionPoolOwnership,
                 stage.investorOwnership>> \notin DoubleSumOutOfTolerance

-----------------------------------------------------------------------------
(* CapTableCalculator: evolution *)

\* _createIncorporationStage dated with the year of the first round itself
createIncorporationStage_FirstRoundYear(c, founderShares, optionPoolShares, firstRoundYear) ==
    CapTableStage(
        [stage |-> "Incorporation",
         year |-> IF Falsy(firstRoundYear) THEN CurrentYear ELSE firstRoundYear,
         totalShares |-> JsAdd(founderShares, optionPoolShares),
         founderShares |-> founderShares,
         optionPoolShares |-> optionPoolShares,
         investorShares |-> 0,
         newInvestorShares |-> 0,
         round |-> <<>>,
         liquidationStack |-> <<>>,
         preMoneyValuation |-> 0,
         postMoneyValuation |-> 0,
         investment |-> 0,
         revenue |-> 0,
         revenueMultiple |-> Frac(0, 1)])

\* CapTableCalculator._createIncorporationStage, before its validateOwnership;
\* firstRoundYear is Null when the company has no round
createIncorporationStage(c, founderShares, optionPoolShares, firstRoundYear) ==
    CapTableStage(
        [stage |-> "Incorporation",
         year |-> IF Falsy(firstRoundYear) THEN CurrentYear ELSE firstRoundYear - 1,
         totalShares |-> JsAdd(founderShares, optionPoolShares),
         founderShares |-> founderShares,
         optionPoolShares |-> optionPoolShares,
         investorShares |-> 0,
         newInvestorShares |-> 0,
         round |-> <<>>,
         liquidationStack |-> <<>>,
         preMoneyValuation |-> 0,
         postMoneyValuation |-> 0,
         investment |-> 0,
         revenue |-> 0,
         revenueMultiple |-> Frac(0, 1)])

\* investorOwnershipPercent = (investment / postMoneyValuation) * 100
investorOwnershipPercent(round) ==
    IF IsTenths(round.preMoneyValuation)
    THEN Frac(round.investment * 1000,
              TenthsOf(round.preMoneyValuation) + 10 * round.investment)
    ELSE Frac(round.investment * 100, round.preMoneyValuation + round.investment)

\* The ownership percentages p for which the double p / (100 - p) lies below
\* the exact ratio, so that totalSharesBefore * p / (100 - p) falls just short
\* of an integer quotient: 33.33..% (investment : pre-money = 1 : 2) and
\* 66.66..% (2 : 1).  For example 2 * 33.33333333333333 / 66.66666666666667
\* is 0.9999999999999998, whose floor is 0
QuotientBelowExact(pct) ==
    \/ 3 * pct.num = 100 * pct.den
    \/ 3 * pct.num = 200 * pct.den

\* The same for a pre-money valuation scaled by a scenario multiplier, where
\* it depends on the share count too: <<totalSharesBefore, pct.num, pct.den>>.
\* For example 11 * 47.61904761904762 / 52.38095238095238 (investment 1 on a
\* pre-money of 1.1) is 9.999999999999998
ScaledQuotientBelowExact ==
    {<<11, 1000, 21>>, <<22, 1000, 21>>, <<40, 1000, 26>>}

\* newInvestorSharesFor with the divisor written (pct - 100)
newInvestorSharesFor_DivisorReversed(totalSharesBefore, pct) ==
    IF totalSharesBefore = NaN THEN NaN
    ELSE IF totalSharesBefore = Infinity THEN Infinity
    ELSE 0 - ((totalSharesBefore * pct.num) \div (100 * pct.den - pct.num))

\* Math.floor(totalSharesBefore * pct / (100 - pct))
newInvestorSharesFor(totalSharesBefore, pct) ==
    IF totalSharesBefore = NaN THEN NaN
    ELSE IF totalSharesBefore = Infinity THEN Infinity
    ELSE LET dividend == totalSharesBefore * pct.num
             divisor == 100 * pct.den - pct.num
             below == \/ QuotientBelowExact(pct)
                      \/ <<totalSharesBefore, pct.num, pct.den>>
                            \in ScaledQuotientBelowExact
         IN IF dividend % divisor = 0 /\ dividend > 0 /\ below
            THEN (dividend \div divisor) - 1
            ELSE dividend \div divisor

\* targetOptionPoolShares sized on the shares before the round's issue
targetOptionPoolShares_BeforeIssue(totalSharesBefore, newInvestorShares, optionPoolPercent) ==
    IF totalSharesBefore \in {NaN, Infinity} THEN totalSharesBefore
    ELSE (totalSharesBefore * optionPoolPercent) \div 100

\* Math.floor((totalSharesBefore + newInvestorShares) * optionPoolPercent / 100)
targetOptionPoolShares(totalSharesBefore, newInvestorShares, optionPoolPercent) ==
    LET base == JsAdd(totalSharesBefore, newInvestorShares)
    IN IF base \in {NaN, Infinity} THEN base
       ELSE (base * optionPoolPercent) \div 100

\* optionPoolTopUpShares of _processRound
optionPoolTopUpSharesFor(c, totalSharesBefore, newInvestorShares, optionPoolShares) ==
    IF c.optionPoolTopUp
    THEN JsMax0(JsSub(targetOptionPoolShares(totalSharesBefore, newInvestorShares,
                                             c.optionPoolPercent),
                      optionPoolShares))
    ELSE 0

\* ownershipPercentAtIssuance taken of the shares before the issue
ownershipPercentAtIssuance_OfSharesBefore(newInvestorShares, totalSharesAfter) ==
    IF newInvestorShares = NaN \/ totalSharesAfter = NaN THEN NaNFrac
    ELSE IF newInvestorShares = Infinity /\ totalSharesAfter = Infinity THEN NaNFrac
    ELSE IF totalSharesAfter = Infinity THEN Frac(0, 1)
    ELSE IF totalSharesAfter - newInvestorShares = 0 THEN NaNFrac
    ELSE Frac(newInvestorShares * 100, totalSharesAfter - newInvestorShares)

\* (newInvestorShares / totalSharesAfter) * 100, kept unrounded
ownershipPercentAtIssuance(newInvestorShares, totalSharesAfter) ==
    IF newInvestorShares = NaN \/ totalSharesAfter = NaN THEN NaNFrac
    ELSE IF newInvestorShares = Infinity /\ totalSharesAfter = Infinity THEN NaNFrac
    ELSE IF totalSharesAfter = Infinity THEN Frac(0, 1)
    ELSE IF totalSharesAfter = 0 THEN NaNFrac
    ELSE Frac(newInvestorShares * 100, totalSharesAfter)

\* liquidationStackFor without the copy of the previous stage's stack
liquidationStackFor_NoCopy(previousStage, round, newInvestorShares, totalSharesAfter) ==
    <<[round |-> round.type,
       investment |-> round.investment,
       preference |-> round.liquidationPref,
       shares |-> newInvestorShares,
       year |-> round.year,
       ownershipPercent |->
            ownershipPercentAtIssuance(newInvestorShares, totalSharesAfter)]>>

\* liquidationStackFor bringing the earlier entries' ownershipPercent up to
\* date with the new total
liquidationStackFor_Rederived(previousStage, round, newInvestorShares, totalSharesAfter) ==
    Append([i \in 1..Len(previousStage.liquidationStack) |->
                [previousStage.liquidationStack[i] EXCEPT !.ownershipPercent =
                    ownershipPercentAtIssuance(previousStage.liquidationStack[i].shares,
                                               totalSharesAfter)]],
           [round |-> round.type,
            investment |-> round.investment,
            preference |-> round.liquidationPref,
            shares |-> newInvestorShares,
            year |-> round.year,
            ownershipPercent |->
                ownershipPercentAtIssuance(newInvestorShares, totalSharesAfter)])

\* the liquidation stack _processRound builds: a copy of the previous stage's
\* stack with this round's entry pushed
liquidationStackFor(previousStage, round, newInvestorShares, totalSharesAfter) ==
    Append(previousStage.liquidationStack,
           [round |-> round.type,
            investment |-> round.investment,
            preference |-> round.liquidationPref,
            shares |-> newInvestorShares,
            year |-> round.year,
            ownershipPercent |->
                ownershipPercentAtIssuance(newInvestorShares, totalSharesAfter)])

\* roundShares with the top-up shares taken from the founders instead of
\* newly issued
roundShares_TopUpFromFounders(round, founderShares, optionPoolShares, totalInvestorShares, c) ==
    LET totalSharesBefore ==
            JsAdd(JsAdd(founderShares, optionPoolShares), totalInvestorShares)
        newInvestorShares ==
            newInvestorSharesFor(totalSharesBefore, investorOwnershipPercent(round))
        optionPoolTopUpShares ==
            optionPoolTopUpSharesFor(c, totalSharesBefore, newInvestorShares,
                                     optionPoolShares)
    IN [founderShares |-> JsSub(founderShares, optionPoolTopUpShares),
        optionPoolShares |-> JsAdd(optionPoolShares, optionPoolTopUpShares),
        investorShares |-> JsAdd(totalInvestorShares, newInvestorShares),
        newInvestorShares |-> newInvestorShares,
        totalShares |-> JsAdd(totalSharesBefore, newInvestorShares)]

\* the share counts of _processRound: totalSharesBefore, the investor issue,
\* the option-pool top-up and the totals after the round
roundShares(round, founderShares, optionPoolShares, totalInvestorShares, c) ==
    LET totalSharesBefore ==
            JsAdd(JsAdd(founderShares, optionPoolShares), totalInvestorShares)
        newInvestorShares ==
            newInvestorSharesFor(totalSharesBefore, investorOwnershipPercent(round))
        optionPoolTopUpShares ==
            optionPoolTopUpSharesFor(c, totalSharesBefore, newInvestorShares,
                                     optionPoolShares)
    IN [founderShares |-> founderShares,
        optionPoolShares |-> JsAdd(optionPoolShares, optionPoolTopUpShares),
        investorShares |-> JsAdd(totalInvestorShares, newInvestorShares),
        newInvestorShares |-> newInvestorShares,
        totalShares |->
            JsAdd(JsAdd(totalSharesBefore, newInvestorShares), optionPoolTopUpShares)]

\* CapTableCalculator._processRound up to stage.calculateOwnership()
processRound(round, founderShares, optionPoolShares, totalInvestorShares, c, previousStage) ==
    LET postMoneyValuation == JsAdd(round.preMoneyValuation, round.investment)
        shares == roundShares(round, founderShares, optionPoolShares,
                              totalInvestorShares, c)
    IN CapTableStage(
        [stage |-> round.type,
         year |-> round.year,
         round |-> <<round>>,
         totalShares |-> shares.totalShares,
         founderShares |-> shares.founderShares,
         optionPoolShares |-> shares.optionPoolShares,
         investorShares |-> shares.investorShares,
         newInvestorShares |-> shares.newInvestorShares,
         preMoneyValuation |-> round.preMoneyValuation,
         postMoneyValuation |-> postMoneyValuation,
         investment |-> round.investment,
         revenue |-> round.revenue,
         revenueMultiple |->
            IF round.revenue > 0 THEN FracOf(postMoneyValuation, round.revenue)
            ELSE Frac(0, 1),
         liquidationStack |->
            liquidationStackFor(previousStage, round, shares.newInvestorShares,
                                shares.totalShares)])

\* what a calculateEvolution call ends with; for an error: its operation, from
\* its message what failed inside and, for a round, the round's type, and the
\* round its data holds, if any
NoEvolution ==
    [status |-> "none", operation |-> "", cause |-> "", roundType |-> "",
     dataRound |-> <<>>]
Returned ==
    [status |-> "returned", operation |-> "", cause |-> "", roundType |-> "",
     dataRound |-> <<>>]

\* the CalculationError _processRound's catch throws: its data is
\* { round: round.toObject() }
roundProcessingError(round) ==
    [status |-> "CalculationError", operation |-> "round_processing",
     cause |-> "ownership_validation", roundType |-> round.type,
     dataRound |-> <<RoundToObject(round)>>]

\* the CalculationError calculateEvolution's catch throws around any error:
\* the inner error's message is kept inside the new message, the inner
\* error's data is not: the new data is { company: company.toObject() }
Thrown(cause, roundType) ==
    [status |-> "CalculationError", operation |-> "cap_table_evolution",
     cause |-> cause, roundType |-> roundType, dataRound |-> <<>>]

\* the loop of calculateEvolution over rounds[k..], with the tracking
\* variables optionPoolShares and totalInvestorShares: the stages pushed and
\* how the pass ends
RECURSIVE processRounds(_, _, _, _, _, _)
processRounds(rounds, k, c, optionPoolShares, totalInvestorShares, evo) ==
    IF k > Len(rounds) THEN [status |-> Returned, stages |-> evo]
    ELSE LET stage == processRound(rounds[k], c.founderShares, optionPoolShares,
                                   totalInvestorShares, c, evo[Len(evo)])
         IN IF ~validateOwnership(stage)
            THEN [status |-> Thrown(roundProcessingError(rounds[k]).operation,
                                    roundProcessingError(rounds[k]).roundType),
                  stages |-> <<>>]
            ELSE processRounds(rounds, k + 1, c, stage.optionPoolShares,
                               stage.investorShares, Append(evo, stage))

\* CapTableCalculator.calculateEvolution
calculateEvolution(c) ==
    IF ~validate(c).ok
    THEN [status |-> Thrown("ValidationError", ""), stages |-> <<>>]
    ELSE LET rounds == getRoundsByYear(c)
             optionPoolShares == getInitialOptionPoolShares(c)
             incorporationStage ==
                createIncorporationStage(c, c.founderShares, optionPoolShares,
                    IF rounds = <<>> THEN Null ELSE rounds[1].year)
         IN IF ~validateOwnership(incorporationStage)
            THEN [status |-> Thrown("ownership_validation", ""), stages |-> <<>>]
            ELSE processRounds(rounds, 1, c, optionPoolShares, 0,
                               <<incorporationStage>>)

\* the company as a calculateEvolution call leaves it: company.validate()
\* comes first, and a company it rejects never has its rounds asked for; no
\* other statement of the engine touches the company or a round
companyAfterEvolution(c) ==
    IF ~validate(c).ok THEN c
    ELSE [c EXCEPT !.rounds = roundsAfterGetRoundsByYear(c)]

-----------------------------------------------------------------------------
(* CapTableCalculator: returns *)

\* DateUtils.yearsBetween
yearsBetween(startYear, endYear) ==
    IF endYear - startYear > 0 THEN endYear - startYear ELSE 0

\* (ownership / 100) * exitValuation, ownership in tenths of a percent
returnOf(ownership, exitValuation) ==
    IF ownership = NaN THEN NaNFrac
    ELSE IF ownership = Infinity THEN Frac(Infinity, 1)
    ELSE Frac(ownership * exitValuation, 1000)

\* (entry.ownershipPercent / 100) * exitValuation
investorReturnOf(ownershipPercent, exitValuation) ==
    IF ownershipPercent.num = NaN THEN NaNFrac
    ELSE Frac(ownershipPercent.num * exitValuation, ownershipPercent.den * 100)

\* a fraction || 0
OrZeroFrac(x) == IF Falsy(x.num) THEN Frac(0, 1) ELSE x

\* an IRR value: a plain number, NaN, or (multiple ^ (1 / years) - 1) * 100
\* kept as its multiple and years
IrrNumber(n) == [kind |-> "number", value |-> n, multiple |-> Frac(0, 1), years |-> 0]
IrrNaN == [kind |-> "NaN", value |-> 0, multiple |-> NaNFrac, years |-> 0]
IrrAnnualized(multiple, years) ==
    [kind |-> "annualized", value |-> 0, multiple |-> multiple, years |-> years]

\* calculateIRR with the multiple taken as investment / returnAmount
calculateIRR_InvertedMultiple(investment, returnAmount, years) ==
    IF years <= 0 \/ investment <= 0 THEN IrrNumber(0)
    ELSE IF returnAmount.num = NaN THEN IrrNaN
    ELSE IF returnAmount.num = 0 THEN IrrAnnualized(Frac(Infinity, 1), years)
    ELSE IF returnAmount.num < 0 THEN IrrNumber(-100)
    ELSE IrrAnnualized(Frac(returnAmount.den * investment, returnAmount.num), years)

\* NumberUtils.calculateIRR; NaN <= 0 is false, and Math.pow of NaN is NaN
calculateIRR(investment, returnAmount, years) ==
    IF years <= 0 \/ investment <= 0 THEN IrrNumber(0)
    ELSE IF returnAmount.num = NaN THEN IrrNaN
    ELSE IF returnAmount.num <= 0 THEN IrrNumber(-100)
    ELSE IrrAnnualized(Frac(returnAmount.num, returnAmount.den * investment), years)

\* FundingRound.getRevenueMultiple() || 0
revenueMultipleOrZero(round) ==
    IF round.revenue <= 0 THEN Frac(0, 1)
    ELSE OrZeroFrac(FracOf(round.preMoneyValuation, round.revenue))

\* liquidationStack.find taking the last matching entry instead of the first
findRoundEntry_LastMatch(liquidationStack, round) ==
    LET matches == {i \in 1..Len(liquidationStack) :
                        /\ liquidationStack[i].round = round.type
                        /\ liquidationStack[i].year = round.year}
    IN IF matches = {} THEN 0
       ELSE CHOOSE i \in matches : \A j \in matches : i >= j

\* liquidationStack.find(entry => entry.round === round.type &&
\* entry.year === round.year): the index of the first match, 0 when none
findRoundEntry(liquidationStack, round) ==
    LET matches == {i \in 1..Len(liquidationStack) :
                        /\ liquidationStack[i].round = round.type
                        /\ liquidationStack[i].year = round.year}
    IN IF matches = {} THEN 0
       ELSE CHOOSE i \in matches : \A j \in matches : i <= j

\* the record _calculateRoundReturns pushes for a round with a stack entry
roundReturn(round, roundEntry, exitValuation, exitYear) ==
    LET yearsHeld == yearsBetween(round.year, exitYear)
        investorReturn == investorReturnOf(roundEntry.ownershipPercent, exitValuation)
    IN [round |-> round.type,
        year |-> round.year,
        investment |-> round.investment,
        yearsHeld |-> yearsHeld,
        exitValue |-> investorReturn,
        multipleOfMoney |->
            IF round.investment > 0
            THEN IF investorReturn.num = NaN THEN NaNFrac
                 ELSE Frac(investorReturn.num, investorReturn.den * round.investment)
            ELSE Frac(0, 1),
        irr |-> calculateIRR(round.investment, investorReturn, yearsHeld),
        revenue |-> round.revenue,
        revenueMultiple |-> revenueMultipleOrZero(round),
        ownershipPercent |-> roundEntry.ownershipPercent]

\* _calculateRoundReturns walking the rounds in year order
RECURSIVE calculateRoundReturns_ByYear(_, _, _, _)
calculateRoundReturns_ByYear(rounds, liquidationStack, exitValuation, exitYear) ==
    IF rounds = <<>> THEN <<>>
    ELSE LET sorted == sortBy(rounds)
             round == sorted[Len(sorted)]
             earlier == calculateRoundReturns_ByYear(
                            SubSeq(sorted, 1, Len(sorted) - 1),
                            liquidationStack, exitValuation, exitYear)
             found == findRoundEntry(liquidationStack, round)
         IN IF found = 0 THEN earlier
            ELSE Append(earlier, roundReturn(round, liquidationStack[found],
                                             exitValuation, exitYear))

\* CapTableCalculator._calculateRoundReturns: a record per round of `rounds`,
\* in the order of `rounds`; a round without a stack entry is skipped
RECURSIVE calculateRoundReturns(_, _, _, _)
calculateRoundReturns(rounds, liquidationStack, exitValuation, exitYear) ==
    IF rounds = <<>> THEN <<>>
    ELSE LET round == rounds[Len(rounds)]
             earlier == calculateRoundReturns(SubSeq(rounds, 1, Len(rounds) - 1),
                                              liquidationStack, exitValuation, exitYear)
             found == findRoundEntry(liquidationStack, round)
         IN IF found = 0 THEN earlier
            ELSE Append(earlier, roundReturn(round, liquidationStack[found],
                                             exitValuation, exitYear))

\* new ReturnsAnalysis(data)
ReturnsAnalysis(data) ==
    [exitValuation |-> OrZero(data.exitValuation),
     exitYear |-> IF Falsy(data.exitYear) THEN CurrentYear ELSE data.exitYear,
     founderReturn |-> OrZeroFrac(data.founderReturn),
     esopReturn |-> OrZeroFrac(data.esopReturn),
     totalInvestorReturn |-> OrZeroFrac(data.totalInvestorReturn),
     roundReturns |-> data.roundReturns,
     finalOwnership |-> data.finalOwnership]

\* what a calculateReturns call ends with; for an error: its class, its
\* operation and the class of the error it wraps
NoReturns ==
    [status |-> "none", operation |-> "", cause |-> "", analysis |-> <<>>]

\* CapTableCalculator.calculateReturns: the DataError for an empty (or missing)
\* evolution is thrown inside the try block, whose catch wraps every error in a
\* CalculationError
calculateReturns(capTableEvolution, c) ==
    IF capTableEvolution = <<>>
    THEN [status |-> "CalculationError", operation |-> "returns_calculation",
          cause |-> "DataError", analysis |-> <<>>]
    ELSE LET finalStage == capTableEvolution[Len(capTableEvolution)]
         IN [status |-> "returned", operation |-> "", cause |-> "",
             analysis |-> <<ReturnsAnalysis(
                [exitValuation |-> c.exitValuation,
                 exitYear |-> c.exitYear,
                 founderReturn |->
                    returnOf(finalStage.founderOwnership, c.exitValuation),
                 esopReturn |->
                    returnOf(finalStage.optionPoolOwnership, c.exitValuation),
                 totalInvestorReturn |->
                    returnOf(finalStage.investorOwnership, c.exitValuation),
                 roundReturns |->
                    calculateRoundReturns(c.rounds, finalStage.liquidationStack,
                                          c.exitValuation, c.exitYear),
                 finalOwnership |->
                    [founders |-> finalStage.founderOwnership,
                     esop |-> finalStage.optionPoolOwnership,
                     investors |-> finalStage.investorOwnership]])>>]

-----------------------------------------------------------------------------
(* CapTableCalculator: sensitivity *)

\* CONFIG.SENSITIVITY.SCENARIOS, the multipliers in tenths
SCENARIOS ==
    <<[label |-> "-20%", multiplier |-> 8, class |-> "text-danger"],
      [label |-> "-10%", multiplier |-> 9, class |-> "text-warning"],
      [label |-> "Base", multiplier |-> 10, class |-> "fw-bold"],
      [label |-> "+10%", multiplier |-> 11, class |-> "text-success"],
      [label |-> "+20%", multiplier |-> 12, class |-> "text-success"]>>

\* baselineRound.preMoneyValuation * scenario.multiplier, the multiplier in
\* tenths.  The valuations of a company's rounds are whole; the product of a
\* valuation that is not is kept to the tenth below
scaledPreMoney(preMoneyValuation, multiplier) ==
    IF IsTenths(preMoneyValuation)
    THEN FromTenths((TenthsOf(preMoneyValuation) * multiplier) \div 10)
    ELSE FromTenths(preMoneyValuation * multiplier)

\* a company whose FundingRound objects are all the objects of c.rounds
modifiedCompany_SameRounds(c) == [company |-> c, shared |-> DOMAIN c.rounds]

\* new Company(company.toObject()): toObject maps every round to a new plain
\* object and the constructor builds a new FundingRound from each, so the
\* new company holds none of the FundingRound objects of c.  `shared` is the
\* set of positions (from 1) whose FundingRound object is the one of c.rounds
modifiedCompany(c) == [company |-> Company(ToObject(c)), shared |-> {}]

\* rounds with the preMoneyValuation of the k-th FundingRound set to value
withPreMoney(rounds, k, value) ==
    [i \in 1..Len(rounds) |->
        IF i = k THEN [rounds[i] EXCEPT !.preMoneyValuation = value]
        ELSE rounds[i]]

\* modifiedCompany.rounds[roundIndex].preMoneyValuation = value: the write
\* goes to one FundingRound object and shows in every company that holds it.
\* roundIndex counts from 0
writePreMoney(c, modified, roundIndex, value) ==
    [company |->
        IF (roundIndex + 1) \in modified.shared
        THEN [c EXCEPT !.rounds = withPreMoney(c.rounds, roundIndex + 1, value)]
        ELSE c,
     modified |->
        [modified.company EXCEPT !.rounds =
            withPreMoney(modified.company.rounds, roundIndex + 1, value)]]

\* returns.roundReturns.find(r => r.round === baselineRound.type): the index
\* of the first match, 0 when none
findRoundReturn(roundReturns, type) ==
    LET matches == {i \in 1..Len(roundReturns) : roundReturns[i].round = type}
    IN IF matches = {} THEN 0
       ELSE CHOOSE i \in matches : \A j \in matches : i <= j

\* the entry pushed in the inner catch: label, class and the error's message
\* (an error's message names its operation and holds the message it wraps)
scenarioError(scenario, operation, cause) ==
    [label |-> scenario.label, class |-> scenario.class,
     error |-> <<[operation |-> operation, cause |-> cause]>>,
     values |-> <<>>]

\* the entry pushed for a scenario whose recomputation returns
scenarioValues(scenario, modified, roundIndex, analysis, baselineType) ==
    LET found == findRoundReturn(analysis.roundReturns, baselineType)
    IN [label |-> scenario.label, class |-> scenario.class,
        error |-> <<>>,
        values |->
          <<[multiplier |-> scenario.multiplier,
             preMoneyValuation |-> modified.rounds[roundIndex + 1].preMoneyValuation,
             founderReturn |-> analysis.founderReturn,
             esopReturn |-> analysis.esopReturn,
             totalInvestorReturn |-> analysis.totalInvestorReturn,
             roundMultiple |->
                IF found # 0 THEN analysis.roundReturns[found].multipleOfMoney
                ELSE Frac(0, 1),
             roundIRR |->
                IF found # 0 THEN analysis.roundReturns[found].irr
                ELSE IrrNumber(0)]>>]

\* the entry pushed once calculateEvolution has ended as capTable: the one of
\* the inner catch if it or calculateReturns threw, the computed one if not
scenarioResult(scenario, modified, roundIndex, capTable, ret, baselineType) ==
    IF capTable.status.status # "returned"
    THEN scenarioError(scenario, capTable.status.operation, capTable.status.cause)
    ELSE IF ret.status # "returned"
    THEN scenarioError(scenario, ret.operation, ret.cause)
    ELSE scenarioValues(scenario, modified, roundIndex, ret.analysis[1],
                        baselineType)

\* the rest of a pass after the write: calculateEvolution and calculateReturns
\* on the modified company, and the entry pushed
scenarioRecomputation(scenario, modified, roundIndex, capTable, baselineType) ==
    scenarioResult(scenario, modified, roundIndex, capTable,
                   calculateReturns(capTable.stages, modified), baselineType)

\* scenarioEntry with the scenario's write made on the company itself: the
\* company afterwards is the modified one
scenarioEntry_OnCompany(written, roundIndex, scenario) ==
    [company |-> written.modified,
     result |-> scenarioRecomputation(scenario, written.modified, roundIndex,
                    calculateEvolution(written.modified),
                    written.company.rounds[roundIndex + 1].type)]

\* one pass of the loop over scenarios, from the write on: the entry pushed,
\* and the company afterwards.  baselineRound.type is read after the write
scenarioEntry(written, roundIndex, scenario) ==
    [company |-> written.company,
     result |-> scenarioRecomputation(scenario, written.modified, roundIndex,
                    calculateEvolution(written.modified),
                    written.company.rounds[roundIndex + 1].type)]

\* one pass of the loop over scenarios, baselineRound being
\* c.rounds[roundIndex]: the entry pushed, and the company afterwards
scenarioPass(c, roundIndex, scenario) ==
    scenarioEntry(
        writePreMoney(c, modifiedCompany(c), roundIndex,
            scaledPreMoney(c.rounds[roundIndex + 1].preMoneyValuation,
                           scenario.multiplier)),
        roundIndex, scenario)

\* the loop over scenarios[k..] with a failing scenario ending it
RECURSIVE scenarioLoop_StopAtFailure(_, _, _, _, _)
scenarioLoop_StopAtFailure(c, roundIndex, scenarios, k, scenarioResults) ==
    IF k > Len(scenarios)
    THEN [company |-> c, results |-> scenarioResults]
    ELSE CHOOSE looped \in
            {IF pass.result.error # <<>>
             THEN [company |-> pass.company,
                   results |-> Append(scenarioResults, pass.result)]
             ELSE scenarioLoop_StopAtFailure(pass.company, roundIndex, scenarios,
                      k + 1, Append(scenarioResults, pass.result)) :
                pass \in {scenarioPass(c, roundIndex, scenarios[k])}} : TRUE

\* the loop over scenarios[k..]: the entries pushed, and the company
\* afterwards.  (`pass` ranges over the one outcome of the pass.)
RECURSIVE scenarioLoop(_, _, _, _, _)
scenarioLoop(c, roundIndex, scenarios, k, scenarioResults) ==
    IF k > Len(scenarios)
    THEN [company |-> c, results |-> scenarioResults]
    ELSE CHOOSE looped \in
            {scenarioLoop(pass.company, roundIndex, scenarios, k + 1,
                          Append(scenarioResults, pass.result)) :
                pass \in {scenarioPass(c, roundIndex, scenarios[k])}} : TRUE

\* what a calculateSensitivityScenarios call ends with; for an error: its
\* class, its operation and the class of the error it wraps
NoSensitivity ==
    [status |-> "none", operation |-> "", cause |-> "", roundIndex |-> Null,
     results |-> <<>>]

\* return scenarioResults, after the loop has ended as `looped`
sensitivityReturn(looped, roundIndex) ==
    [company |-> looped.company,
     outcome |-> [status |-> "returned", operation |-> "", cause |-> "",
                  roundIndex |-> roundIndex, results |-> looped.results]]

\* CapTableCalculator.calculateSensitivityScenarios: how the call ends, and
\* the company afterwards.  The DataError for a roundIndex without a round is
\* thrown inside the try block, whose catch wraps it in a CalculationError
calculateSensitivityScenarios(c, roundIndex, scenarios) ==
    IF roundIndex < 0 \/ roundIndex >= Len(c.rounds)
    THEN [company |-> c,
          outcome |-> [status |-> "CalculationError",
                       operation |-> "sensitivity_analysis",
                       cause |-> "DataError", roundIndex |-> roundIndex,
                       results |-> <<>>]]
    ELSE sensitivityReturn(scenarioLoop(c, roundIndex, scenarios, 1, <<>>),
                           roundIndex)

-----------------------------------------------------------------------------
(* CapTableCalculator: UK tax benefits *)

\* CONFIG.TAX_SCHEMES: the caps, and the rates as fractions (0.5, 0.3, and
\* standardCgtRate - cgtRate = 0.2 - 0.1)
SEIS_MAX_INVESTMENT == 200000
EIS_MAX_INVESTMENT == 1000000
SEIS_RELIEF_RATE == Frac(1, 2)
EIS_RELIEF_RATE == Frac(3, 10)
EMI_CGT_SAVING == Frac(1, 10)

\* Math.min(amount, cap) for an amount kept as a fraction
minOf(amount, cap) ==
    IF amount.num = NaN THEN NaNFrac
    ELSE IF amount.num = Infinity THEN Frac(cap, 1)
    ELSE IF amount.num < cap * amount.den THEN amount
    ELSE Frac(cap, 1)

\* amount * rate
timesRate(amount, rate) ==
    IF ~IsFinite(amount.num) THEN amount
    ELSE Frac(amount.num * rate.num, amount.den * rate.den)

\* a + b on amounts kept as fractions
plus(a, b) ==
    IF a.num = NaN \/ b.num = NaN THEN NaNFrac
    ELSE IF a.num = Infinity \/ b.num = Infinity THEN Frac(Infinity, 1)
    ELSE Frac(a.num * b.den + b.num * a.den, a.den * b.den)

\* calculateUKTaxBenefits with the SEIS relief taken on the whole investment
seisReliefOf_Uncapped(analysis, taxOptions) ==
    IF taxOptions.seisEligible /\ Len(analysis.roundReturns) > 0
    THEN timesRate(Frac(analysis.roundReturns[1].investment, 1), SEIS_RELIEF_RATE)
    ELSE Frac(0, 1)

\* benefits.seisRelief
seisReliefOf(analysis, taxOptions) ==
    IF taxOptions.seisEligible /\ Len(analysis.roundReturns) > 0
    THEN timesRate(minOf(Frac(analysis.roundReturns[1].investment, 1),
                         SEIS_MAX_INVESTMENT),
                   SEIS_RELIEF_RATE)
    ELSE Frac(0, 1)

\* benefits.eisRelief
eisReliefOf(analysis, taxOptions) ==
    IF taxOptions.eisEligible
    THEN timesRate(minOf(analysis.totalInvestorReturn, EIS_MAX_INVESTMENT),
                   EIS_RELIEF_RATE)
    ELSE Frac(0, 1)

\* benefits.emiSaving
emiSavingOf(analysis, taxOptions) ==
    IF taxOptions.emiScheme THEN timesRate(analysis.esopReturn, EMI_CGT_SAVING)
    ELSE Frac(0, 1)

\* the benefits object once its three reliefs are set: totalBenefits is their
\* sum
benefitsOf(seisRelief, eisRelief, emiSaving) ==
    [seisRelief |-> seisRelief,
     eisRelief |-> eisRelief,
     emiSaving |-> emiSaving,
     totalBenefits |-> plus(plus(seisRelief, eisRelief), emiSaving)]

\* what a calculateUKTaxBenefits call ends with
NoTax == [status |-> "none", taxOptions |-> <<>>, benefits |-> <<>>]

\* CapTableCalculator.calculateUKTaxBenefits(returns, taxOptions), returns a
\* ReturnsAnalysis: the benefits object is new, and nothing is written to
\* returns
calculateUKTaxBenefits(analysis, taxOptions) ==
    [status |-> "returned",
     taxOptions |-> <<taxOptions>>,
     benefits |-> <<benefitsOf(seisReliefOf(analysis, taxOptions),
                               eisReliefOf(analysis, taxOptions),
                               emiSavingOf(analysis, taxOptions))>>]

-----------------------------------------------------------------------------
(* Inputs *)

\* the records the form hands to new Company(...) for the evolution engine:
\* all valid; optionPoolPercent 100 is the largest percentage validation admits
CompanyInputs ==
    [companyName : {"Acme"},
     currency : {"GBP"},
     founderShares : {3, 8},
     optionPoolPercent : {20, 50, 100},
     optionPoolTopUp : BOOLEAN,
     useRevenueMultiples : {TRUE},
     exitYear : {2030},
     exitValuation : {100},
     exitMultiple : {5},
     rounds : {<<>>}]

\* round records for addRound: two types, two years, investment : pre-money
\* of 1:1, 1:2 and 2:1, and one round that validation rejects (year 2019)
RoundInputs ==
    {r \in [id : {Null},
            type : {"Seed", "Series A"},
            year : {2024, 2025},
            preMoneyValuation : {1, 2},
            investment : {1, 2},
            revenue : {0},
            liquidationPref : {"1x"},
            antiDilution : {"none"},
            discountRate : {0}] :
        ~(r.preMoneyValuation = 2 /\ r.investment = 2)}
    \cup
    {[id |-> Null, type |-> "Seed", year |-> 2019, preMoneyValuation |-> 1,
      investment |-> 1, revenue |-> 0, liquidationPref |-> "1x",
      antiDilution |-> "none", discountRate |-> 0]}

\* company records for the returns engine: as CompanyInputs, with founder
\* share counts small enough for a round to issue no share, and an exit year
\* before, in and after the years of the rounds
ReturnsCompanyInputs ==
    [companyName : {"Acme"},
     currency : {"GBP"},
     founderShares : {2, 8},
     optionPoolPercent : {20, 100},
     optionPoolTopUp : BOOLEAN,
     useRevenueMultiples : {TRUE},
     exitYear : {2024, 2030},
     exitValuation : {100},
     exitMultiple : {5},
     rounds : {<<>>}]

\* round records of the form: one that validates and one whose year does not
AppRoundInputs ==
    {[id |-> Null, type |-> "Seed", year |-> year, preMoneyValuation |-> 1,
      investment |-> 1, revenue |-> 0, liquidationPref |-> "1x",
      antiDilution |-> "none", discountRate |-> 0] : year \in {2019, 2024}}

\* what collectInputData reads from the form: up to MaxRounds rounds, the
\* i-th with id i - 1, and two exit valuations
AppCompanyInputs ==
    {[companyName |-> "Acme", currency |-> "GBP", founderShares |-> 8,
      optionPoolPercent |-> 20, optionPoolTopUp |-> TRUE,
      useRevenueMultiples |-> TRUE, exitYear |-> 2030,
      exitValuation |-> exitValuation, exitMultiple |-> 5,
      rounds |-> [i \in 1..n |-> [rounds[i] EXCEPT !.id = i - 1]]] :
        exitValuation \in {100, 200},
        n \in 0..MaxRounds,
        rounds \in [1..MaxRounds -> AppRoundInputs]}

\* round records for the sensitivity analysis: two types and two years, so
\* that rounds can share a type; a pre-money valuation that a scenario scales
\* below 1, and one that none does
SensitivityRoundInputs ==
    [id : {Null},
     type : {"Seed", "Series A"},
     year : {2024, 2025},
     preMoneyValuation : {1, 2},
     investment : {1},
     revenue : {0},
     liquidationPref : {"1x"},
     antiDilution : {"none"},
     discountRate : {0}]

\* company records for the sensitivity analysis: a share count small enough
\* for a scaled valuation to change the shares issued, a pool kept at its
\* target or diluted
SensitivityCompanyInputs ==
    [companyName : {"Acme"},
     currency : {"GBP"},
     founderShares : {8},
     optionPoolPercent : {20},
     optionPoolTopUp : BOOLEAN,
     useRevenueMultiples : {TRUE},
     exitYear : {2030},
     exitValuation : {100},
     exitMultiple : {5},
     rounds : {<<>>}]

\* returns analyses for the tax benefits, of companies valued in the millions:
\* none, one or two return records with investments below, at and above the
\* SEIS cap, an aggregate investor return below, at and above the EIS cap (or
\* nothing), and a pool return or none
TaxInvestments == {100000, 200000, 300000}

TaxRoundReturn(investment) ==
    [round |-> "Seed",
     year |-> 2025,
     investment |-> investment,
     yearsHeld |-> 5,
     exitValue |-> Frac(investment * 2, 1),
     multipleOfMoney |-> Frac(2, 1),
     irr |-> IrrAnnualized(Frac(2, 1), 5),
     revenue |-> 0,
     revenueMultiple |-> Frac(0, 1),
     ownershipPercent |-> Frac(10, 1)]

TaxReturnsInputs ==
    [exitValuation : {3000000},
     exitYear : {2030},
     founderReturn : {Frac(500000, 1)},
     esopReturn : {Frac(0, 1), Frac(400000, 1)},
     totalInvestorReturn :
        {Frac(0, 1), Frac(900000, 1), Frac(1000000, 1), Frac(1500000, 1)},
     roundReturns :
        {<<>>}
        \cup {<<TaxRoundReturn(a)>> : a \in TaxInvestments}
        \cup {<<TaxRoundReturn(a), TaxRoundReturn(b)>> :
                a \in TaxInvestments, b \in TaxInvestments},
     finalOwnership : {[founders |-> 500, esop |-> 0, investors |-> 500]}]

\* the three checkboxes of the tax form
TaxOptions ==
    [seisEligible : BOOLEAN, eisEligible : BOOLEAN, emiScheme : BOOLEAN]

\* records for the constructors and the validator: every field with a valid
\* value, a value validation rejects and, where there is one, the value the
\* form yields for an empty field (0)
ModelCompanyInputs ==
    [companyName : {"", "Acme"},
     currency : {"GBP", "JPY", "constructor"},
     founderShares : {0, 10, -5},
     optionPoolPercent : {0, 20, 120},
     optionPoolTopUp : {TRUE},
     useRevenueMultiples : {TRUE},
     exitYear : {2030, 2051},
     exitValuation : {0, 100},
     exitMultiple : {5},
     rounds : {<<>>}]

ModelRoundInputs ==
    [id : {Null},
     type : {"Seed", "Angel"},
     year : {2025, 2019},
     preMoneyValuation : {0, 5},
     investment : {1},
     revenue : {0},
     liquidationPref : {"1x"},
     antiDilution : {"none"},
     discountRate : {0}]

-----------------------------------------------------------------------------
(* The state machine *)

NotReconstructed == <<>>

\* new Company(): every field at its default
NoData ==
    [companyName |-> "", currency |-> "", founderShares |-> Null,
     optionPoolPercent |-> Null, optionPoolTopUp |-> TRUE,
     useRevenueMultiples |-> TRUE, exitYear |-> Null,
     exitValuation |-> Null, exitMultiple |-> Null, rounds |-> <<>>]
NewCompany == Company(NoData)

\* the CapTableApp after its constructor: capTableData and returnsData are
\* null (here <<>>; a value v is <<v>>); csv is the last file exportToCSV
\* wrote, none yet
NoApp ==
    [company |-> NewCompany, capTableData |-> <<>>, returnsData |-> <<>>,
     csv |-> <<>>]

\* CapTableApp.calculateCapTable, c the company collectInputData returned and
\* evo what calculateEvolution(c) ends with: this.company is assigned first,
\* this.capTableData when calculateEvolution returns, this.returnsData when
\* calculateReturns returns; the catch block assigns nothing
calculateCapTable(a, c, evo) ==
    IF evo.status.status # "returned"
    THEN [a EXCEPT !.company = c]
    ELSE LET ret == CHOOSE r \in {calculateReturns(evo.stages, c)} : TRUE
         IN IF ret.status # "returned"
            THEN [a EXCEPT !.company = c, !.capTableData = <<evo.stages>>]
            ELSE [a EXCEPT !.company = c, !.capTableData = <<evo.stages>>,
                           !.returnsData = ret.analysis]

\* the file CapTableApp.exportToCSV writes: the name, the currency and the
\* exit valuation of this.company, a row per stage of this.capTableData, a
\* row per record of this.returnsData and its summary
exportToCSV(a) ==
    [companyName |-> a.company.companyName,
     currency |-> a.company.currency,
     exitValuation |-> a.company.exitValuation,
     stages |-> a.capTableData[1],
     roundReturns |-> a.returnsData[1].roundReturns,
     totalInvestorReturn |-> a.returnsData[1].totalInvestorReturn]

NoResults ==
    /\ validation' = NotRun
    /\ evoStatus' = NoEvolution
    /\ evolution' = <<>>
    /\ reconstructed' = NotReconstructed
    /\ returns' = NoReturns
    /\ sensitivity' = NoSensitivity
    /\ UNCHANGED <<tax, app>>

\* company = new Company(data)
Construct(data) ==
    /\ input = data
    /\ company = Company(data)
    /\ validation = NotRun
    /\ evoStatus = NoEvolution
    /\ evolution = <<>>
    /\ reconstructed = NotReconstructed
    /\ returns = NoReturns
    /\ sensitivity = NoSensitivity
    /\ tax = NoTax
    /\ app = NoApp

Init == \E data \in CompanyInputs : Construct(data)

InitModels == \E data \in ModelCompanyInputs : Construct(data)

\* company.addRound(roundData), roundData drawn from `inputs`
AddRound(inputs) ==
    \E roundData \in inputs :
        /\ Len(company.rounds) < MaxRounds
        /\ company' = [company EXCEPT !.rounds = addRound(company, roundData)]
        /\ input' = [input EXCEPT !.rounds = Append(@, roundData)]
        /\ NoResults

\* company.removeRound(index); an index past the end changes nothing
RemoveRound ==
    \E index \in 0..Len(company.rounds) :
        /\ company' = [company EXCEPT !.rounds = removeRound(company, index)]
        /\ input' = [input EXCEPT !.rounds =
                        [i \in 1..Len(removeRound(company, index)) |->
                            IF i <= index THEN @[i] ELSE @[i + 1]]]
        /\ IF index < Len(company.rounds)
           THEN NoResults
           ELSE UNCHANGED <<validation, evoStatus, evolution, reconstructed,
                            returns, sensitivity, tax, app>>

\* company.rounds[i].calculatePostMoney()
CalculatePostMoney ==
    \E i \in 1..Len(company.rounds) :
        /\ company' = [company EXCEPT !.rounds[i] = calculatePostMoney(@)]
        /\ UNCHANGED input
        /\ NoResults

\* company.rounds[i].calculateEquityPercentage()
CalculateEquityPercentage ==
    \E i \in 1..Len(company.rounds) :
        /\ company' = [company EXCEPT !.rounds[i] = calculateEquityPercentage(@)]
        /\ UNCHANGED input
        /\ NoResults

\* company.validate()
Validate ==
    /\ validation' = validate(company)
    /\ evoStatus' = NoEvolution
    /\ evolution' = <<>>
    /\ reconstructed' = NotReconstructed
    /\ returns' = NoReturns
    /\ sensitivity' = NoSensitivity
    /\ UNCHANGED <<tax, app>>
    /\ UNCHANGED <<input, company>>

\* CapTableCalculator.calculateEvolution(company)
CalculateEvolution ==
    /\ evoStatus' = calculateEvolution(company).status
    /\ evolution' = calculateEvolution(company).stages
    /\ validation' = NotRun
    /\ reconstructed' = NotReconstructed
    /\ returns' = NoReturns
    /\ sensitivity' = NoSensitivity
    /\ company' = companyAfterEvolution(company)
    /\ UNCHANGED <<tax, app>>
    /\ UNCHANGED input

\* CapTableCalculator.calculateReturns(evolution, company), evolution being
\* what the last calculateEvolution call returned (nothing, if it threw or
\* was not made)
CalculateReturns ==
    /\ returns' = calculateReturns(evolution, company)
    /\ sensitivity' = NoSensitivity
    /\ UNCHANGED <<tax, app>>
    /\ UNCHANGED <<input, company, validation, evoStatus, evolution, reconstructed>>

\* CapTableCalculator.calculateSensitivityScenarios(company, roundIndex) with
\* the scenarios of CONFIG; roundIndex from the one before the first round to
\* the one after the last
CalculateSensitivity ==
    \E roundIndex \in -1..Len(company.rounds) :
        \E call \in {calculateSensitivityScenarios(company, roundIndex, SCENARIOS)} :
            /\ sensitivity' = call.outcome
            /\ company' = call.company
            /\ UNCHANGED <<input, validation, evoStatus, evolution,
                           reconstructed, returns, tax, app>>

\* CapTableCalculator.calculateUKTaxBenefits(returns, taxOptions) on the
\* analysis the last calculateReturns call returned
CalculateUKTaxBenefits ==
    \E taxOptions \in TaxOptions :
        /\ returns.status = "returned"
        /\ tax' = calculateUKTaxBenefits(returns.analysis[1], taxOptions)
        /\ UNCHANGED <<input, company, validation, evoStatus, evolution,
                       reconstructed, returns, sensitivity, app>>

\* CapTableApp.calculateCapTable on the form as it stands, `data` what
\* collectInputData reads from it
CalculateCapTable ==
    \E data \in AppCompanyInputs :
        \E c \in {Company(data)} :
            \E evo \in {calculateEvolution(c)} :
                /\ app' = calculateCapTable(app, companyAfterEvolution(c), evo)
                /\ input' = data
                /\ UNCHANGED <<company, validation, evoStatus, evolution,
                               reconstructed, returns, sensitivity, tax>>

\* CapTableApp.exportToCSV: nothing is written while capTableData or
\* returnsData is null
ExportToCSV ==
    /\ app.capTableData # <<>>
    /\ app.returnsData # <<>>
    /\ app' = [app EXCEPT !.csv = <<exportToCSV(app)>>]
    /\ UNCHANGED <<input, company, validation, evoStatus, evolution,
                   reconstructed, returns, sensitivity, tax>>

\* CapTableApp.clearAll: the stored company and results are reset
ClearAll ==
    /\ app' = [app EXCEPT !.company = NewCompany, !.capTableData = <<>>,
                          !.returnsData = <<>>]
    /\ input' = NoData
    /\ UNCHANGED <<company, validation, evoStatus, evolution, reconstructed,
                   returns, sensitivity, tax>>

\* new Company(company.toObject())
RoundTrip ==
    /\ reconstructed' = <<Company(ToObject(company))>>
    /\ validation' = NotRun
    /\ evoStatus' = NoEvolution
    /\ evolution' = <<>>
    /\ returns' = NoReturns
    /\ sensitivity' = NoSensitivity
    /\ UNCHANGED <<tax, app>>
    /\ UNCHANGED <<input, company>>

Next ==
    \/ AddRound(RoundInputs)
    \/ RemoveRound
    \/ Validate
    \/ CalculateEvolution

Spec == Init /\ [][Next]_vars

\* the data models on their own: constructors, round methods, validation and
\* the plain-data round trip
NextModels ==
    \/ AddRound(ModelRoundInputs)
    \/ RemoveRound
    \/ CalculatePostMoney
    \/ CalculateEquityPercentage
    \/ Validate
    \/ RoundTrip

SpecModels == InitModels /\ [][NextModels]_vars

\* the evolution engine followed by the returns engine
InitReturns == \E data \in ReturnsCompanyInputs : Construct(data)

NextReturns ==
    \/ AddRound(RoundInputs)
    \/ RemoveRound
    \/ CalculateEvolution
    \/ CalculateReturns

SpecReturns == InitReturns /\ [][NextReturns]_vars

\* the sensitivity analysis of a company under edit
InitSensitivity == \E data \in SensitivityCompanyInputs : Construct(data)

NextSensitivity ==
    \/ AddRound(SensitivityRoundInputs)
    \/ RemoveRound
    \/ CalculateSensitivity

SpecSensitivity == InitSensitivity /\ [][NextSensitivity]_vars

\* the tax benefits of a returns analysis
InitTax ==
    \E data \in TaxReturnsInputs :
        /\ input \in SensitivityCompanyInputs
        /\ input.optionPoolTopUp
        /\ company = Company(input)
        /\ validation = NotRun
        /\ evoStatus = NoEvolution
        /\ evolution = <<>>
        /\ reconstructed = NotReconstructed
        /\ returns = [status |-> "returned", operation |-> "", cause |-> "",
                      analysis |-> <<ReturnsAnalysis(data)>>]
        /\ sensitivity = NoSensitivity
        /\ tax = NoTax
        /\ app = NoApp

NextTax == CalculateUKTaxBenefits

SpecTax == InitTax /\ [][NextTax]_vars

\* the application: calculation passes, exports and resets
InitApp == Construct(NoData)

NextApp ==
    \/ CalculateCapTable
    \/ ExportToCSV
    \/ ClearAll

SpecApp == InitApp /\ [][NextApp]_vars

-----------------------------------------------------------------------------
(* Properties of the evolution engine *)

\* a === b on JavaScript numbers: NaN equals nothing
JsEq(a, b) == a # NaN /\ b # NaN /\ a = b

\* the sum of the `shares` fields of a liquidation stack
RECURSIVE SumShares(_)
SumShares(stack) ==
    IF stack = <<>> THEN 0
    ELSE JsAdd(SumShares(SubSeq(stack, 1, Len(stack) - 1)), stack[Len(stack)].shares)

OwnershipTotal(stage) ==
    JsAdd(JsAdd(stage.founderOwnership, stage.optionPoolOwnership),
          stage.investorOwnership)

EvolutionReturned == evoStatus.status = "returned"

\* C1: every stage calculateEvolution returns has founderOwnership +
\* optionPoolOwnership + investorOwnership within 0.1 of 100.0 (within one
\* tenth of 1000 tenths; a NaN or infinite sum is not within 0.1 of anything)
C1_OwnershipSumsTo100 ==
    EvolutionReturned =>
        \A k \in 1..Len(evolution) :
            /\ OwnershipTotal(evolution[k]) \notin {NaN, Infinity}
            /\ OwnershipTotal(evolution[k]) - 1000 <= 1
            /\ 1000 - OwnershipTotal(evolution[k]) <= 1

\* C2: in every returned stage totalShares = founderShares + optionPoolShares
\* + investorShares, and investorShares is the sum of the shares of the
\* stage's liquidation-stack entries
C2_SharesAddUp ==
    EvolutionReturned =>
        \A k \in 1..Len(evolution) :
            /\ JsEq(evolution[k].totalShares,
                    JsAdd(JsAdd(evolution[k].founderShares,
                                evolution[k].optionPoolShares),
                          evolution[k].investorShares))
            /\ JsEq(evolution[k].investorShares,
                    SumShares(evolution[k].liquidationStack))

\* C2 witness: a returned evolution of two rounds that both issued investor
\* shares, with an option-pool top-up in the last
C2_Witness ==
    /\ EvolutionReturned
    /\ Len(evolution) = 3
    /\ evolution[2].newInvestorShares > 0
    /\ evolution[3].newInvestorShares > 0
    /\ evolution[3].optionPoolShares > evolution[2].optionPoolShares

\* C3: totalShares never decreases from one returned stage to the next
C3_TotalSharesNonDecreasing ==
    EvolutionReturned =>
        \A k \in 1..(Len(evolution) - 1) :
            /\ evolution[k].totalShares # NaN
            /\ evolution[k + 1].totalShares # NaN
            /\ ~JsLT(evolution[k + 1].totalShares, evolution[k].totalShares)

\* C3 witness: a returned evolution of two rounds in which the total grew in
\* both rounds
C3_Witness ==
    /\ EvolutionReturned
    /\ Len(evolution) = 3
    /\ \A k \in 1..3 : IsFinite(evolution[k].totalShares)
    /\ evolution[2].totalShares > evolution[1].totalShares
    /\ evolution[3].totalShares > evolution[2].totalShares

\* C4: founderShares is the same in every returned stage and equals
\* company.founderShares
C4_FounderSharesConstant ==
    EvolutionReturned =>
        \A k \in 1..Len(evolution) :
            evolution[k].founderShares = company.founderShares

\* C4 witness: a returned evolution in which a round issued investor shares
\* and topped the option pool up
C4_Witness ==
    /\ EvolutionReturned
    /\ company.optionPoolTopUp
    /\ \E k \in 2..Len(evolution) :
        /\ evolution[k].newInvestorShares > 0
        /\ evolution[k].optionPoolShares > evolution[k - 1].optionPoolShares

\* the round a stage was made from (addRound numbers the rounds 0, 1, ...)
StageRound(k) == evolution[k].round[1]

\* C5: a successful calculateEvolution returns rounds + 1 stages: Incorporation,
\* then one stage per round in ascending year order, rounds of equal year in
\* their insertion order
C5_StagesInYearOrder ==
    EvolutionReturned =>
        /\ Len(evolution) = Len(company.rounds) + 1
        /\ evolution[1].stage = "Incorporation"
        /\ evolution[1].round = <<>>
        /\ \A k \in 2..Len(evolution) :
            /\ Len(evolution[k].round) = 1
            /\ StageRound(k) = company.rounds[StageRound(k).id + 1]
            /\ evolution[k].stage = StageRound(k).type
            /\ evolution[k].year = StageRound(k).year
        /\ \A j, k \in 2..Len(evolution) :
            j < k =>
                \/ StageRound(j).year < StageRound(k).year
                \/ /\ StageRound(j).year = StageRound(k).year
                   /\ StageRound(j).id < StageRound(k).id

\* C5 witness: a returned evolution of a company whose rounds were added out
\* of year order, the stage after Incorporation being the round added last
C5_Witness ==
    /\ EvolutionReturned
    /\ Len(company.rounds) = 2
    /\ company.rounds[1].year > company.rounds[2].year
    /\ StageRound(2).id = 1

\* a returned evolution of a company with two different rounds of one year
C5_WitnessTie ==
    /\ EvolutionReturned
    /\ Len(company.rounds) = 2
    /\ company.rounds[1].year = company.rounds[2].year
    /\ company.rounds[1].type # company.rounds[2].type

\* C6: the Incorporation stage has an empty liquidation stack, and the stack of
\* each later stage is the stack of the stage before it, entry for entry, with
\* exactly one entry appended
C6_LiquidationStackAppendOnly ==
    EvolutionReturned =>
        /\ evolution[1].liquidationStack = <<>>
        /\ \A k \in 1..(Len(evolution) - 1) :
            /\ Len(evolution[k + 1].liquidationStack) =
                    Len(evolution[k].liquidationStack) + 1
            /\ SubSeq(evolution[k + 1].liquidationStack, 1,
                      Len(evolution[k].liquidationStack)) =
                    evolution[k].liquidationStack

\* C6 witness: a returned evolution of two rounds, the second of which changed
\* the total, so that the first entry's ownershipPercent is no longer the
\* first round's share of the current total
C6_Witness ==
    /\ EvolutionReturned
    /\ Len(evolution) = 3
    /\ evolution[3].totalShares > evolution[2].totalShares
    /\ evolution[3].liquidationStack[1].shares > 0
    /\ evolution[3].liquidationStack[1].ownershipPercent =
            evolution[2].liquidationStack[1].ownershipPercent

\* a round of the company failed in _processRound
RoundFailed ==
    /\ evoStatus.status = "CalculationError"
    /\ evoStatus.cause = "round_processing"

\* C17: with the top-up flag enabled, after every funding round the pool's
\* share of total shares equals optionPoolPercent to the 0.1-point precision
\* (optionPoolOwnership is in tenths of a percent)
C17_PoolKeptAtTarget ==
    (EvolutionReturned /\ company.optionPoolTopUp) =>
        \A k \in 2..Len(evolution) :
            evolution[k].optionPoolOwnership = 10 * company.optionPoolPercent

\* C18: if processing a round fails, calculateEvolution returns no stage and
\* the CalculationError it raises carries the failing round's context: its
\* type and its index
C18_RoundFailureCarriesContext ==
    RoundFailed =>
        /\ evolution = <<>>
        /\ \E i \in 1..Len(company.rounds) :
            /\ evoStatus.roundType = company.rounds[i].type
            /\ Len(evoStatus.dataRound) = 1
            /\ evoStatus.dataRound[1].id = company.rounds[i].id

\* floor(sharesBefore * investment / preMoney)
ReferenceNewInvestorShares(sharesBefore, round) ==
    IF sharesBefore \in {NaN, Infinity} THEN sharesBefore
    ELSE (sharesBefore * round.investment) \div round.preMoneyValuation

\* founder + pool + cumulative investor shares of a stage
StageShares(stage) ==
    JsAdd(JsAdd(stage.founderShares, stage.optionPoolShares), stage.investorShares)

\* C19: the new investor shares of each round equal the reference value
\* floor(sharesBefore * investment / preMoney), sharesBefore being the previous
\* stage's founder + pool + cumulative investor shares
C19_NewInvestorSharesReference ==
    EvolutionReturned =>
        \A k \in 2..Len(evolution) :
            JsEq(evolution[k].newInvestorShares,
                 ReferenceNewInvestorShares(StageShares(evolution[k - 1]),
                                            StageRound(k)))

\* max(previous pool, floor((sharesBefore + newInvestorShares) * percent / 100))
ReferencePool(previousStage, stage, percent) ==
    LET base == JsAdd(StageShares(previousStage), stage.newInvestorShares)
        target == IF base \in {NaN, Infinity} THEN base
                  ELSE (base * percent) \div 100
    IN IF JsGT(target, previousStage.optionPoolShares) THEN target
       ELSE previousStage.optionPoolShares

\* C20: with top-up enabled the pool share count after a round is
\* max(previous pool, floor((sharesBefore + newInvestorShares) *
\* optionPoolPercent / 100)); with top-up disabled the pool share count of
\* every stage is the incorporation pool share count
C20_PoolUpdate ==
    EvolutionReturned =>
        \A k \in 2..Len(evolution) :
            IF company.optionPoolTopUp
            THEN JsEq(evolution[k].optionPoolShares,
                      ReferencePool(evolution[k - 1], evolution[k],
                                    company.optionPoolPercent))
            ELSE JsEq(evolution[k].optionPoolShares,
                      evolution[1].optionPoolShares)

\* C20 witness: a returned evolution with top-up enabled whose pool grew in
\* each of two rounds
C20_Witness ==
    /\ EvolutionReturned
    /\ company.optionPoolTopUp
    /\ Len(evolution) = 3
    /\ IsFinite(evolution[3].optionPoolShares)
    /\ evolution[2].optionPoolShares > evolution[1].optionPoolShares
    /\ evolution[3].optionPoolShares > evolution[2].optionPoolShares

-----------------------------------------------------------------------------
(* Properties of the data models and the validator *)

ValidationFailed == validation # NotRun /\ ~validation.ok

\* the sub-errors of every round of a company, round by round
RECURSIVE AllRoundErrors(_)
AllRoundErrors(rounds) ==
    IF rounds = <<>> THEN <<>>
    ELSE AllRoundErrors(SubSeq(rounds, 1, Len(rounds) - 1))
         \o FundingRoundErrors(rounds[Len(rounds)])

\* C7: a failed validate(company) raises one ValidationError whose payload
\* lists one sub-error per violated field, across the company fields and
\* every funding round; it never stops at the first violation
C7_CollectsAllViolations ==
    ValidationFailed =>
        validation.errors =
            CompanyDataErrors(company) \o AllRoundErrors(company.rounds)

\* lo <= x <= hi on JavaScript numbers
InRange(x, lo, hi) == x \notin {Null, NaN} /\ ~JsLT(x, lo) /\ ~JsGT(x, hi)

\* the conditions under which validate is to succeed
ClaimedValid(c) ==
    /\ c.companyName # ""
    /\ IsInteger(c.founderShares) /\ InRange(c.founderShares, 1, 1000000000)
    /\ InRange(c.optionPoolPercent, 0, 100)
    /\ c.currency \in {"GBP", "USD", "EUR"}
    /\ IsInteger(c.exitYear) /\ InRange(c.exitYear, 2020, 2050)
    /\ InRange(c.exitValuation, 1, Trillion)
    /\ \A i \in 1..Len(c.rounds) :
        /\ c.rounds[i].type \in ROUND_TYPES
        /\ IsInteger(c.rounds[i].year) /\ InRange(c.rounds[i].year, 2020, 2050)
        /\ InRange(c.rounds[i].preMoneyValuation, 1, Trillion)
        /\ InRange(c.rounds[i].investment, 1, Trillion)
        /\ c.rounds[i].revenue \notin {Null, NaN}
        /\ ~JsLT(c.rounds[i].revenue, 0)

\* C8: validate(company) succeeds exactly when the name is non-empty, founder
\* shares is an integer in [1, 1e9], option-pool percent is in [0, 100], the
\* currency is GBP, USD or EUR, exit year is an integer in [2020, 2050], exit
\* valuation is in [1, 1e12] and every round has a supported type, an integer
\* year in [2020, 2050], pre-money and investment in [1, 1e12] and revenue >= 0
C8_ValidExactlyWhenListed ==
    validation # NotRun => (validation.ok <=> ClaimedValid(company))

\* the numeric fields of a company or round record
CompanyNumbers(c) ==
    <<c.founderShares, c.optionPoolPercent, c.exitYear, c.exitValuation,
      c.exitMultiple>>

RoundNumbers(r) ==
    <<r.year, r.preMoneyValuation, r.investment, r.revenue, r.discountRate>>

\* a 0 was supplied where validation admits none
ZeroSupplied ==
    \/ input.founderShares = 0
    \/ input.exitValuation = 0
    \/ \E i \in 1..Len(input.rounds) :
        input.rounds[i].preMoneyValuation = 0 \/ input.rounds[i].investment = 0

\* C9: the constructors never replace a supplied numeric value by a default:
\* the company and its rounds hold the numbers of the input record (a supplied
\* option-pool percent of 0 stays 0), and a supplied 0 for founder shares, exit
\* valuation, pre-money valuation or investment is rejected by validation
C9_SuppliedNumbersKept ==
    /\ CompanyNumbers(company) = CompanyNumbers(input)
    /\ Len(company.rounds) = Len(input.rounds)
    /\ \A i \in 1..Len(input.rounds) :
        RoundNumbers(company.rounds[i]) = RoundNumbers(input.rounds[i])
    /\ (validation # NotRun /\ ZeroSupplied) => ~validation.ok

\* C10: new Company(c.toObject()).toObject() is deep-equal to c.toObject(),
\* each round's id and calculated fields included
C10_RoundTrip ==
    reconstructed # NotReconstructed =>
        ToObject(reconstructed[1]) = ToObject(company)

-----------------------------------------------------------------------------
(* Properties of the returns engine *)

ReturnsFailed == returns.status \notin {"none", "returned"}

\* C15: calculateReturns called with an empty stage sequence fails with an
\* error of kind DataError; a failure of any other cause is a CalculationError
C15_EmptyEvolutionIsDataError ==
    ReturnsFailed =>
        IF evolution = <<>> THEN returns.status = "DataError"
        ELSE returns.status = "CalculationError"

\* the return records of the last calculateReturns call
RoundReturns == returns.analysis[1].roundReturns

\* C16: every per-round return record with investment > 0 and exit value 0
\* has IRR = -100, whatever the exit year is relative to the round year
C16_IrrFloor ==
    returns.status = "returned" =>
        \A k \in 1..Len(RoundReturns) :
            (RoundReturns[k].investment > 0 /\ RoundReturns[k].exitValue.num = 0)
                => RoundReturns[k].irr = IrrNumber(-100)

\* C16 as amended: every per-round return record with investment > 0, exit
\* value 0 and a round year before the exit year has IRR = -100 (a round of
\* the exit year or later is held 0 years, and its IRR is 0)
C16_IrrFloorYearsHeld ==
    returns.status = "returned" =>
        \A k \in 1..Len(RoundReturns) :
            (/\ RoundReturns[k].investment > 0
             /\ RoundReturns[k].exitValue.num = 0
             /\ RoundReturns[k].year < returns.analysis[1].exitYear)
                => RoundReturns[k].irr = IrrNumber(-100)

\* C16 witness: a return record of a round held for some years whose
\* investors got no share, so that its exit value is 0
C16_Witness ==
    /\ returns.status = "returned"
    /\ \E k \in 1..Len(RoundReturns) :
        /\ RoundReturns[k].investment > 0
        /\ RoundReturns[k].exitValue.num = 0
        /\ RoundReturns[k].yearsHeld > 0
        /\ RoundReturns[k].ownershipPercent = Frac(0, 2)

-----------------------------------------------------------------------------
(* Properties of the sensitivity analysis *)

SensitivityReturned == sensitivity.status = "returned"

\* the company of scenario k (from 1) for the round at roundIndex (from 0):
\* company with that round's pre-money valuation scaled
ScenarioCompany(roundIndex, k) ==
    [company EXCEPT !.rounds[roundIndex + 1].preMoneyValuation =
        scaledPreMoney(@, SCENARIOS[k].multiplier)]

\* whether the recomputation of scenario k fails, and what it returns
ScenarioFails(roundIndex, k) ==
    calculateEvolution(ScenarioCompany(roundIndex, k)).status.status # "returned"
ScenarioReturns(roundIndex, k) ==
    calculateReturns(calculateEvolution(ScenarioCompany(roundIndex, k)).stages,
                     ScenarioCompany(roundIndex, k)).analysis[1]

\* C12: a calculateSensitivityScenarios call, whether its scenarios succeed or
\* fail, leaves the company passed in as it was: founder shares, every
\* round's pre-money valuation and every other field, and the order of the
\* rounds.  (A step that ends with a sensitivity outcome is such a call.)
C12_CompanyNotMutated ==
    [][sensitivity'.status # "none" => company' = company]_vars

\* a call has returned for a company of two rounds, with a failed scenario
\* and a computed one whose pre-money valuation differs from the round's
C12_Witness ==
    /\ SensitivityReturned
    /\ Len(company.rounds) = 2
    /\ \E k \in DOMAIN sensitivity.results : sensitivity.results[k].error # <<>>
    /\ \E k \in DOMAIN sensitivity.results :
        /\ sensitivity.results[k].values # <<>>
        /\ sensitivity.results[k].values[1].preMoneyValuation #
              company.rounds[sensitivity.roundIndex + 1].preMoneyValuation

\* C13: for a valid roundIndex the call returns one entry per scenario, in
\* the order of the scenarios; the entry of a scenario whose recomputation
\* fails (as it does when the scaled pre-money valuation is below 1) is
\* tagged with the error's message, and the entry of every other scenario
\* holds the values computed for it
C13_OneEntryPerScenario ==
    (/\ sensitivity.status # "none"
     /\ sensitivity.roundIndex \in 0..(Len(company.rounds) - 1)) =>
        /\ SensitivityReturned
        /\ Len(sensitivity.results) = Len(SCENARIOS)
        /\ \A k \in DOMAIN SCENARIOS :
            LET entry == sensitivity.results[k]
                scaled == scaledPreMoney(
                    company.rounds[sensitivity.roundIndex + 1].preMoneyValuation,
                    SCENARIOS[k].multiplier)
                fails == ScenarioFails(sensitivity.roundIndex, k)
                computed == ScenarioReturns(sensitivity.roundIndex, k)
            IN /\ entry.label = SCENARIOS[k].label
               /\ entry.class = SCENARIOS[k].class
               /\ JsLT(scaled, 1) => fails
               /\ IF fails
                  THEN /\ entry.values = <<>>
                       /\ Len(entry.error) = 1
                       /\ entry.error[1].operation = "cap_table_evolution"
                  ELSE /\ entry.error = <<>>
                       /\ Len(entry.values) = 1
                       /\ entry.values[1].multiplier = SCENARIOS[k].multiplier
                       /\ entry.values[1].preMoneyValuation = scaled
                       /\ entry.values[1].founderReturn = computed.founderReturn
                       /\ entry.values[1].esopReturn = computed.esopReturn
                       /\ entry.values[1].totalInvestorReturn =
                            computed.totalInvestorReturn

\* a call has returned with a scenario that failed because its scaled
\* valuation is below 1, followed by a scenario that was computed
C13_Witness ==
    /\ SensitivityReturned
    /\ \E k \in DOMAIN sensitivity.results :
        /\ sensitivity.results[k].error # <<>>
        /\ sensitivity.results[k].error[1].cause = "ValidationError"
        /\ JsLT(scaledPreMoney(
                    company.rounds[sensitivity.roundIndex + 1].preMoneyValuation,
                    SCENARIOS[k].multiplier), 1)
        /\ \E j \in DOMAIN sensitivity.results :
            j > k /\ sensitivity.results[j].values # <<>>

\* C14: in every computed scenario, roundMultiple and roundIRR are the
\* multipleOfMoney and irr of the return record of the round at roundIndex
\* itself, also when several rounds of the company have that round's type
C14_RoundsOwnReturnRecord ==
    SensitivityReturned =>
        \A k \in DOMAIN sensitivity.results :
            sensitivity.results[k].values # <<>> =>
                LET roundReturns ==
                        ScenarioReturns(sensitivity.roundIndex, k).roundReturns
                    own == roundReturns[sensitivity.roundIndex + 1]
                IN /\ Len(roundReturns) = Len(company.rounds)
                   /\ sensitivity.results[k].values[1].roundMultiple =
                        own.multipleOfMoney
                   /\ sensitivity.results[k].values[1].roundIRR = own.irr

-----------------------------------------------------------------------------
(* Properties of the Incorporation stage and of division *)

\* q is the floor of founderShares * optionPoolPercent /
\* (100 - optionPoolPercent), stated without a division; a positive dividend
\* over the divisor zero is Infinity
IsInitialPool(q, c) ==
    IF c.optionPoolPercent = 100 THEN q = Infinity
    ELSE /\ IsFinite(q)
         /\ q * (100 - c.optionPoolPercent) <= c.founderShares * c.optionPoolPercent
         /\ c.founderShares * c.optionPoolPercent < (q + 1) * (100 - c.optionPoolPercent)

\* the year of the earliest round of a company that has rounds
EarliestRoundYear(c) ==
    CHOOSE y \in {c.rounds[i].year : i \in DOMAIN c.rounds} :
        \A i \in DOMAIN c.rounds : y <= c.rounds[i].year

\* C21: the first stage calculateEvolution returns is the Incorporation
\* stage: its pool is floor(founderShares * poolPercent / (100 - poolPercent)),
\* its total is founderShares plus that pool, it has no investor shares, and
\* when the company has rounds its year is the earliest round year minus 1
C21_IncorporationStage ==
    EvolutionReturned =>
        /\ evolution[1].stage = "Incorporation"
        /\ IsInitialPool(evolution[1].optionPoolShares, company)
        /\ evolution[1].founderShares = company.founderShares
        /\ evolution[1].totalShares =
              JsAdd(company.founderShares, evolution[1].optionPoolShares)
        /\ evolution[1].investorShares = 0
        /\ evolution[1].newInvestorShares = 0
        /\ company.rounds # <<>> =>
              evolution[1].year = EarliestRoundYear(company) - 1

\* an evolution has returned for a company whose later round is the earlier
\* in years, and whose pool is a floor that rounds down
C21_Witness ==
    /\ EvolutionReturned
    /\ Len(company.rounds) = 2
    /\ company.rounds[2].year < company.rounds[1].year
    /\ company.optionPoolPercent = 20
    /\ company.founderShares = 3
    /\ evolution[1].optionPoolShares = 0
    /\ evolution[1].year = 2023

-----------------------------------------------------------------------------
(* Properties of the return records *)

ReturnsReturned == returns.status = "returned"

\* the liquidation stack of the final stage of the evolution the returns were
\* calculated from
FinalStack == evolution[Len(evolution)].liquidationStack

\* the position in FinalStack of the first entry with the type and year of
\* round, 0 when there is none
FirstMatch(round) ==
    IF \A i \in DOMAIN FinalStack :
            FinalStack[i].round # round.type \/ FinalStack[i].year # round.year
    THEN 0
    ELSE CHOOSE i \in DOMAIN FinalStack :
            /\ FinalStack[i].round = round.type /\ FinalStack[i].year = round.year
            /\ \A j \in 1..(i - 1) :
                FinalStack[j].round # round.type \/ FinalStack[j].year # round.year

\* entry j of FinalStack holds the percentage of the stage that issued it:
\* its shares out of the total of stage j + 1
FrozenAtIssuance(j) ==
    (IsFinite(evolution[j + 1].totalShares) /\ evolution[j + 1].totalShares > 0) =>
        FinalStack[j].ownershipPercent =
            Frac(FinalStack[j].shares * 100, evolution[j + 1].totalShares)

C23_IrrDefined ==
    ReturnsReturned =>
        \A k \in DOMAIN RoundReturns :
            LET record == RoundReturns[k]
                exitYear == returns.analysis[1].exitYear
            IN /\ record.yearsHeld =
                    (IF exitYear - record.year > 0 THEN exitYear - record.year ELSE 0)
               /\ (record.yearsHeld <= 0 \/ record.investment <= 0)
                    => record.irr = IrrNumber(0)
               /\ (/\ record.yearsHeld > 0
                   /\ record.investment > 0
                   /\ IsFinite(record.exitValue.num)
                   /\ record.exitValue.num <= 0)
                    => record.irr = IrrNumber(-100)
               /\ record.irr.kind # "NaN"
               /\ record.irr.kind = "number" => record.irr.value >= -100
               /\ record.irr.kind = "annualized" =>
                    /\ IsFinite(record.irr.multiple.num)
                    /\ record.irr.multiple.num > 0
                    /\ record.irr.multiple.den > 0

-----------------------------------------------------------------------------
(* Properties of the tax benefits *)

\* a whole amount, and ten times an amount that is a whole number of tenths
Whole(amount) == amount.num \div amount.den
IsWhole(amount) == IsFinite(amount.num) /\ amount.num % amount.den = 0
TimesTen(amount) == (amount.num * 10) \div amount.den
IsTenthsAmount(amount) == IsFinite(amount.num) /\ (amount.num * 10) % amount.den = 0

Min(a, b) == IF a < b THEN a ELSE b

\* the reference, times ten, on an analysis of whole amounts
ReferenceSeis(analysis, taxOptions) ==
    IF taxOptions.seisEligible /\ Len(analysis.roundReturns) >= 1
    THEN Min(analysis.roundReturns[1].investment, 200000) * 5
    ELSE 0
ReferenceEis(analysis, taxOptions) ==
    IF taxOptions.eisEligible
    THEN Min(Whole(analysis.totalInvestorReturn), 1000000) * 3
    ELSE 0
ReferenceEmi(analysis, taxOptions) ==
    IF taxOptions.emiScheme THEN Whole(analysis.esopReturn) * (2 - 1) ELSE 0

-----------------------------------------------------------------------------
(* Properties of the engines' inputs *)

\* C25: a calculateEvolution call and a calculateReturns call leave the
\* company as it was (its fields, the order of its rounds, every field of every
\* round), and a calculateReturns call leaves every stage of the evolution it
\* is handed, liquidation stack entries included, as it was
C25_InputsUnchanged ==
    [][/\ evoStatus'.status # "none" => company' = company
       /\ returns'.status # "none" => company' = company /\ evolution' = evolution]_vars

\* both engines have run on a company whose rounds are not in year order
C25_Witness ==
    /\ evoStatus.status = "returned"
    /\ returns.status = "returned"
    /\ Len(company.rounds) = 2
    /\ company.rounds[1].year > company.rounds[2].year
    /\ evolution[2].year < evolution[3].year

-----------------------------------------------------------------------------
(* Properties of the application *)

\* the application after one pass on `data`, nothing stored before
AfterOnePass(data) ==
    LET c == Company(data)
        evo == calculateEvolution(c)
    IN calculateCapTable(NoApp, c, evo)

\* C26: whatever passes were made, the stored capTableData is the evolution
\* of the stored company, the stored returnsData is the returns analysis of
\* that evolution and that company, and a file exportToCSV wrote shows the
\* company and the results of one pass
C26_ResultsOfOneInput ==
    /\ app.capTableData # <<>> =>
        LET evo == calculateEvolution(app.company)
        IN /\ evo.status.status = "returned"
           /\ app.capTableData[1] = evo.stages
    /\ app.returnsData # <<>> =>
        /\ app.capTableData # <<>>
        /\ app.returnsData =
                calculateReturns(app.capTableData[1], app.company).analysis
    /\ app.csv # <<>> =>
        \E data \in AppCompanyInputs :
            /\ AfterOnePass(data).returnsData # <<>>
            /\ app.csv[1] = exportToCSV(AfterOnePass(data))

-----------------------------------------------------------------------------
(* Properties of the divisors *)

\* a share count that is a finite non-negative integer
IsShareCount(n) == IsInteger(n) /\ n # Trillion /\ n >= 0

\* the share counts of a stage
ShareCounts(stage) ==
    {stage.founderShares, stage.optionPoolShares, stage.investorShares,
     stage.newInvestorShares, stage.totalShares}
        \cup {stage.liquidationStack[i].shares :
                i \in DOMAIN stage.liquidationStack}

\* C27: for a company that passes validation, 100 - optionPoolPercent is not
\* zero and, for every round, 100 minus the round's investor percentage
\* (investment / (preMoneyValuation + investment) * 100) is above zero; and
\* every share count of every stage calculateEvolution returns is a finite
\* non-negative integer
C27_NoZeroDivisor ==
    /\ validate(company).ok =>
        /\ 100 - company.optionPoolPercent # 0
        /\ \A i \in DOMAIN company.rounds :
                company.rounds[i].investment * 100 <
                    100 * (company.rounds[i].preMoneyValuation
                            + company.rounds[i].investment)
    /\ EvolutionReturned =>
        \A k \in DOMAIN evolution :
            \A n \in ShareCounts(evolution[k]) : IsShareCount(n)

-----------------------------------------------------------------------------
(* Properties of the scenarios against the baseline *)

\* the scenarios in the opposite order
Reversed(scenarios) ==
    [k \in 1..Len(scenarios) |-> scenarios[Len(scenarios) + 1 - k]]

\* the position of the 'Base' scenario
BaseScenario == CHOOSE k \in DOMAIN SCENARIOS : SCENARIOS[k].label = "Base"

\* the entry of the returned analysis agrees with the baseline: the returns
\* analysis of the evolution of the company, or their failure
AgreesWithBaseline(entry, c) ==
    LET capTable == calculateEvolution(c)
        ret == calculateReturns(capTable.stages, c)
    IN IF capTable.status.status # "returned" \/ ret.status # "returned"
       THEN entry.error # <<>>
       ELSE /\ entry.error = <<>>
            /\ entry.values[1].founderReturn = ret.analysis[1].founderReturn
            /\ entry.values[1].esopReturn = ret.analysis[1].esopReturn
            /\ entry.values[1].totalInvestorReturn =
                    ret.analysis[1].totalInvestorReturn

\* C28: in a returned sensitivity analysis the 'Base' entry has the
\* founderReturn, esopReturn and totalInvestorReturn of
\* calculateReturns(calculateEvolution(company), company); and every entry is
\* the one a call with that scenario alone returns, and the one a call with
\* the scenarios in the opposite order returns for it
C28_BaseIsBaseline ==
    SensitivityReturned =>
        /\ AgreesWithBaseline(sensitivity.results[BaseScenario], company)
        /\ \A k \in DOMAIN SCENARIOS :
            /\ sensitivity.results[k] =
                calculateSensitivityScenarios(company, sensitivity.roundIndex,
                    <<SCENARIOS[k]>>).outcome.results[1]
            /\ sensitivity.results[k] =
                calculateSensitivityScenarios(company, sensitivity.roundIndex,
                    Reversed(SCENARIOS)).outcome.results[Len(SCENARIOS) + 1 - k]

\* an analysis of the second of two rounds has returned, its 'Base' entry
\* computed, and its first and last entries computed with other returns
C28_Witness ==
    /\ SensitivityReturned
    /\ Len(company.rounds) = 2
    /\ sensitivity.roundIndex = 1
    /\ sensitivity.results[BaseScenario].error = <<>>
    /\ sensitivity.results[1].error = <<>>
    /\ sensitivity.results[5].error = <<>>
    /\ sensitivity.results[1].values[1].founderReturn #
            sensitivity.results[BaseScenario].values[1].founderReturn
    /\ sensitivity.results[5].values[1].founderReturn #
            sensitivity.results[BaseScenario].values[1].founderReturn

-----------------------------------------------------------------------------
(* Properties of the exit values *)

RECURSIVE GCD(_, _)
GCD(a, b) == IF b = 0 THEN a ELSE GCD(b, a % b)

\* a finite fraction in lowest terms
Reduced(f) ==
    LET g == GCD(IF f.num < 0 THEN -f.num ELSE f.num, f.den)
    IN IF g = 0 THEN f ELSE Frac(f.num \div g, f.den \div g)

\* the sum of the exit values of return records, NaN if one of them is not a
\* finite number
RECURSIVE SumExitValues(_)
SumExitValues(roundReturns) ==
    IF roundReturns = <<>> THEN Frac(0, 1)
    ELSE LET rest == SumExitValues(Tail(roundReturns))
             first == Head(roundReturns).exitValue
         IN IF ~IsFinite(rest.num) \/ ~IsFinite(first.num) THEN NaNFrac
            ELSE Reduced(Frac(Reduced(first).num * rest.den
                                + rest.num * Reduced(first).den,
                              Reduced(first).den * rest.den))

\* |a - b| is at most 0.1 percent of exitValuation
WithinTenthOfAPoint(a, b, exitValuation) ==
    /\ IsFinite(a.num)
    /\ IsFinite(b.num)
    /\ LET x == Reduced(a)
           y == Reduced(b)
           d == x.num * y.den - y.num * x.den
           diff == Reduced(Frac(IF d < 0 THEN -d ELSE d, x.den * y.den))
       IN diff.num * 1000 <= exitValuation * diff.den

\* the exit values of the records add up to the aggregate investor return
\* within the tolerance, and to no more than the exit valuation
ExitValuesAddUp ==
    LET sum == SumExitValues(RoundReturns)
        analysis == returns.analysis[1]
    IN /\ WithinTenthOfAPoint(sum, analysis.totalInvestorReturn,
                              analysis.exitValuation)
       /\ sum.num <= analysis.exitValuation * sum.den

\* C29: in every returns analysis of a validated company the sum of exitValue
\* over the return records is within 0.1 percent of exitValuation of
\* totalInvestorReturn, and is no more than exitValuation
C29_ExitValuesAddUp == ReturnsReturned => ExitValuesAddUp


\* C29 as amended: in every returns analysis of a validated company with at
\* most one round the sum of exitValue over the return records is within 0.1
\* percent of exitValuation of totalInvestorReturn, and is no more than
\* exitValuation; unless optionPoolPercent is 100 and there is a round, when
\* the record's exitValue is NaN and totalInvestorReturn is 0
C29_SingleRoundExitValue ==
    (ReturnsReturned /\ Len(company.rounds) <= 1) =>
        IF company.optionPoolPercent = 100 /\ Len(company.rounds) = 1
        THEN /\ Len(RoundReturns) = 1
             /\ RoundReturns[1].exitValue.num = NaN
             /\ returns.analysis[1].totalInvestorReturn = Frac(0, 1)
        ELSE ExitValuesAddUp

\* a returns analysis of a company with one round whose record's exit value
\* is not the aggregate investor return: the aggregate comes from a rounded
\* percentage
C29_Witness ==
    /\ ReturnsReturned
    /\ Len(company.rounds) = 1
    /\ company.optionPoolPercent = 20
    /\ Len(RoundReturns) = 1
    /\ RoundReturns[1].exitValue.num > 0
    /\ Reduced(RoundReturns[1].exitValue) #
            Reduced(returns.analysis[1].totalInvestorReturn)
    /\ ExitValuesAddUp

-----------------------------------------------------------------------------
(* Properties of the order of the return records *)

\* C30: a returns analysis of the stages calculateEvolution returned for the
\* company holds one return record per round of the company, none skipped,
\* the k-th record being the one of company.rounds[k]: the order in which the
\* rounds were added, whatever their years
C30_RecordPerRoundInOrder ==
    (ReturnsReturned /\ EvolutionReturned) =>
        /\ Len(RoundReturns) = Len(company.rounds)
        /\ Len(evolution) = Len(company.rounds) + 1
        /\ \A k \in DOMAIN company.rounds :
            /\ RoundReturns[k].round = company.rounds[k].type
            /\ RoundReturns[k].year = company.rounds[k].year
            /\ RoundReturns[k].investment = company.rounds[k].investment
            /\ RoundReturns[k].revenue = company.rounds[k].revenue

\* a returns analysis of a company whose second round is the earlier in
\* years and differs from the first in type and investment: the stages are
\* in year order, the records are not
C30_Witness ==
    /\ ReturnsReturned
    /\ EvolutionReturned
    /\ Len(company.rounds) = 2
    /\ company.rounds[1].year > company.rounds[2].year
    /\ company.rounds[1].type # company.rounds[2].type
    /\ company.rounds[1].investment # company.rounds[2].investment
    /\ evolution[2].stage = company.rounds[2].type
    /\ RoundReturns[1].year > RoundReturns[2].year
    /\ RoundReturns[1].round = company.rounds[1].type

====
